---- MODULE Spec2Model ----
(***************************************************************************)
(* Request handlers of the chat application (server/routers/ai.ts) over    *)
(* the persistence accessors (server/db.ts) and the external gateways.     *)
(* Every awaited database statement, storage call and gateway call is one  *)
(* step of the handler that issues it.                                     *)
(***************************************************************************)
EXTENDS Integers, Sequences, FiniteSets, TLC

\* ---------------------------------------------------------------- bounds
MaxConv  == 2  \* conversation ids callers name: 1..MaxConv
MaxId    == 2  \* message, file and image-reference ids callers name: 1..MaxId
MaxClock == 1  \* last value of the clock (timestamps 0..MaxClock)
MaxCalls == 2  \* requests served in one behaviour
MaxCallsTwoOwners == 1  \* requests served in one behaviour on the two-owner database

Slots   == {1, 2}       \* requests in flight
Users   == {1, 2}       \* ctx.user.id of authenticated callers
Callers == {0} \cup Users  \* 0: no user context
Titles  == {"Chat"}
Texts   == {"Hello"}     \* message texts and prompts
Filename == "a.png"
FileUrl  == "https://files.example/a.png"
FileMime == "image/png"
\* base64 payloads: number of 4-character groups and of '=' padding characters
FileDatas == {[groups |-> 1, pad |-> 0],
              [groups |-> 34952534, pad |-> 2],
              [groups |-> 34952534, pad |-> 1]}
\* originalImages supplied directly by the caller
DirectImages == {<<>>, <<[url |-> "https://files.example/up.jpg", mimeType |-> "image/jpeg"]>>}
\* b64_json payloads the image service returns
ImagePayloads == {"AAAA", "BBBB"}

\* ------------------------------------------------------- program constants
MAX_FILE_SIZE == 104857600

MOCK_USER_OPEN_ID == "mock-user-123"
MOCK_USER_NAME == "OpenSource User"

NotAuthenticated == "User not authenticated"
ConvNotFound     == "Conversation not found"
DbNotAvailable   == "Database not available"
DbError          == "ER_STATEMENT_FAILED"  \* message of the error a failed statement raises

VARIABLES
    env,              \* process environment: which variables are set
    now,              \* clock (CURRENT_TIMESTAMP, Date.now())
    users,            \* table users
    conversations,    \* table conversations
    messages,         \* table messages
    files,            \* table files
    imageReferences,  \* table imageReferences
    nextId,           \* auto-increment counters of the four tables
    storage,          \* keys held by the storage collaborator
    req,              \* the handler invocation of each slot
    calls,            \* number of requests that have arrived
    home,             \* state of the Home page component
    composer          \* state of the ImageComposer component

tables == <<users, conversations, messages, files, imageReferences, nextId>>
client == <<home, composer>>
vars == <<env, now, users, conversations, messages, files, imageReferences, nextId, storage,
          req, calls, home, composer>>
server == <<env, now, tables, storage, req, calls>>

\* useState initial values of Home: activeConversation null (0), messages [],
\* isLoading false; chatMutation holds the variables of the calls in flight
HomeInit == [activeConversation |-> 0, messages |-> <<>>, isLoading |-> FALSE,
             chatMutation |-> <<>>]

\* useState initial values of ImageComposer: layers [], selectedLayerId null (0);
\* loading holds the images being decoded, nextLayer numbers the layer ids
ComposerInit == [layers |-> <<>>, selectedLayerId |-> 0, loading |-> {}, nextLayer |-> 1]

\* no page is open
ClientInit == home = HomeInit /\ composer = ComposerInit

\* ------------------------------------------------------------ request record
NoInput == [cid |-> 0, id |-> 0, title |-> "", text |-> "", ids |-> {},
            imgs |-> <<>>, data |-> [groups |-> 0, pad |-> 0], mime |-> ""]

NoLocals == [rows |-> <<>>, content |-> "", text |-> "", imgs |-> <<>>,
             key |-> <<>>, url |-> "", size |-> 0, signedInAt |-> 0,
             llmResponse |-> [choices |-> <<>>]]

NoResult == [kind |-> "none", rows |-> <<>>, text |-> "", id |-> 0]

NoBody == [kind |-> "none", messages |-> <<>>, prompt |-> "", images |-> <<>>]

NoSnapshot == [conversations |-> {}, messages |-> {}, files |-> {},
               imageReferences |-> {}, storage |-> {}]

Idle == [pc |-> "idle", op |-> "none", user |-> 0, in |-> NoInput,
         loc |-> NoLocals, out |-> NoResult, err |-> "",
         dbr |-> 0,      \* database read statements issued
         dbw |-> 0,      \* database write statements issued
         stw |-> 0,      \* storage writes issued
         gw  |-> 0,      \* gateway calls issued
         dbf |-> FALSE,  \* a database call of this request failed
         ins |-> {},     \* <<table, id>> of the rows this request inserted
         sent |-> NoBody, \* body of the last gateway request
         pre |-> NoSnapshot  \* tables and storage when the request arrived
        ]

Fail(q, msg) == [q EXCEPT !.pc = "failed", !.err = msg]
Return(q, result) == [q EXCEPT !.pc = "done", !.out = result]
DbFailed(q) == [q EXCEPT !.dbf = TRUE]
Wrote(q) == [q EXCEPT !.dbw = @ + 1]
Read(q) == [q EXCEPT !.dbr = @ + 1]
Goto(q, label) == [q EXCEPT !.pc = label]
Inserted(q, table, id) == [q EXCEPT !.ins = @ \cup {<<table, id>>}]
Put(s, q) == req' = [req EXCEPT ![s] = q]

\* --------------------------------------------------------------- ordering
\* ORDER BY createdAt: rows with equal timestamps come in any order
RECURSIVE OrderByCreatedAt(_)
OrderByCreatedAt(S) ==
    IF S = {} THEN {<<>>}
    ELSE UNION { { <<x>> \o p : p \in OrderByCreatedAt(S \ {x}) } :
                 x \in {y \in S : \A z \in S : y.createdAt <= z.createdAt} }

\* ORDER BY createdAt DESC LIMIT 1
LatestByCreatedAt(S) == {x \in S : \A z \in S : z.createdAt <= x.createdAt}

Range(s) == {s[i] : i \in DOMAIN s}

\* --------------------------------------------------------------- accessors
\* getDb(): the drizzle instance exists iff DATABASE_URL is set
getDb == env.db

\* a read accessor was called: no statement without a database, a failure
\* noted when the database is missing or the statement fails
Queried(q, ok) == IF ~getDb THEN DbFailed(q) ELSE IF ~ok THEN DbFailed(Read(q)) ELSE Read(q)

\* getConversation without the userId condition
getConversation_anyOwner(conversationId, userId, ok) ==
    IF ~getDb \/ ~ok THEN {}
    ELSE {c \in conversations : c.id = conversationId}

\* getConversation(conversationId, userId): the row, or null (here {}) also
\* when the database is missing or the statement fails
getConversation(conversationId, userId, ok) ==
    IF ~getDb \/ ~ok THEN {}
    ELSE {c \in conversations : c.id = conversationId /\ c.userId = userId}

\* getConversations without the userId condition
getConversations_all(userId, ok) ==
    IF ~getDb \/ ~ok THEN {<<>>}
    ELSE OrderByCreatedAt(conversations)

\* getConversations(userId): [] when the database is missing or the statement fails
getConversations(userId, ok) ==
    IF ~getDb \/ ~ok THEN {<<>>}
    ELSE OrderByCreatedAt({c \in conversations : c.userId = userId})

\* getMessages(conversationId): rows of the conversation by createdAt; [] when
\* the database is missing or the statement fails
getMessages(conversationId, ok) ==
    IF ~getDb \/ ~ok THEN {<<>>}
    ELSE OrderByCreatedAt({m \in messages : m.conversationId = conversationId})

\* getFiles without its conversationId condition
getFiles_allConversations(conversationId, messageId, ok) ==
    IF ~getDb \/ ~ok THEN {<<>>}
    ELSE OrderByCreatedAt(files)

\* getFiles(conversationId?, messageId?): 0 stands for an absent argument
getFiles(conversationId, messageId, ok) ==
    IF ~getDb \/ ~ok THEN {<<>>}
    ELSE IF conversationId # 0 THEN
        OrderByCreatedAt({f \in files : f.conversationId = conversationId})
    ELSE IF messageId # 0 THEN
        OrderByCreatedAt({f \in files : f.messageId = messageId})
    ELSE OrderByCreatedAt(files)

\* getImageReferences(conversationId)
getImageReferences(conversationId, ok) ==
    IF ~getDb \/ ~ok THEN {<<>>}
    ELSE OrderByCreatedAt({i \in imageReferences : i.conversationId = conversationId})

\* the size test against a ceiling ten times too high
exceedsLimit_tenfold(length) == length > 10 * MAX_FILE_SIZE

\* uploadFile: "if (buffer.length > MAX_FILE_SIZE)"
exceedsLimit(length) == length > MAX_FILE_SIZE

\* Buffer.from(fileData, 'base64').length
DecodedLength(data) == 3 * data.groups - data.pad

\* sequence of the elements of seq that satisfy Test, in order
RECURSIVE SelectIds(_, _)
SelectIds(seq, ids) ==
    IF seq = <<>> THEN <<>>
    ELSE (IF Head(seq).id \in ids THEN <<Head(seq)>> ELSE <<>>) \o SelectIds(Tail(seq), ids)

\* ---------------------------------------------------------------- gateway
\* content of choices[0].message: a string, a list of parts, or absent
StringContent(t) == [tag |-> "string", text |-> t, parts |-> <<>>]
PartsContent(ps) == [tag |-> "parts", text |-> "", parts |-> ps]
TextPart(t)  == [type |-> "text", text |-> t]
ImagePart    == [type |-> "image_url", text |-> ""]

LLMResponses ==
    { [choices |-> <<>>],
      [choices |-> <<StringContent("{}")>>],
      [choices |-> <<PartsContent(<<>>)>>],
      [choices |-> <<PartsContent(<<ImagePart>>)>>],
      [choices |-> <<PartsContent(<<ImagePart, TextPart("Part text"),
                                     TextPart("More text")>>)>>] }

Fallback == "I could not generate a response."

\* the extraction taking the text of the first part, whatever its type
responseContent_firstPart(llmResponse) ==
    IF Len(llmResponse.choices) = 0 THEN Fallback
    ELSE LET content == llmResponse.choices[1] IN
         IF content.tag = "string" THEN content.text
         ELSE IF content.tag = "parts" /\ Len(content.parts) > 0 THEN content.parts[1].text
         ELSE Fallback

\* chat: responseContent computed from llmResponse
responseContent(llmResponse) ==
    IF Len(llmResponse.choices) = 0 THEN Fallback
    ELSE LET content == llmResponse.choices[1] IN
         IF content.tag = "string" THEN content.text
         ELSE IF content.tag = "parts" /\ Len(content.parts) > 0 THEN
             LET texts == {i \in DOMAIN content.parts : content.parts[i].type = "text"} IN
             IF texts = {} THEN Fallback
             ELSE content.parts[CHOOSE i \in texts : \A j \in texts : i <= j].text
         ELSE Fallback

\* advancedCapabilities: text taken from result.choices[0].message.content
responseText(result) ==
    IF Len(result.choices) = 0 THEN ""
    ELSE LET content == result.choices[1] IN
         IF content.tag = "string" THEN content.text
         ELSE IF content.tag = "parts" THEN
             LET texts == {i \in DOMAIN content.parts : content.parts[i].type = "text"} IN
             IF texts = {} THEN ""
             ELSE content.parts[CHOOSE i \in texts : \A j \in texts : i <= j].text
         ELSE ""

\* the code fence of three backquote characters (a backquote cannot be written here)
Fence == "<fence>"

\* texts JSON.parse accepts
JsonTexts == {"{}"}

\* extractStructuredData: JSON.parse(jsonText), or {raw_response: jsonText}
parseOrRaw(jsonText) ==
    IF jsonText \in JsonTexts THEN [raw |-> FALSE, text |-> jsonText]
    ELSE [raw |-> TRUE, text |-> jsonText]

\* JSON.stringify(extractedData, null, 2)
stringify(data) ==
    IF data.raw THEN "{\n  \"raw_response\": \"" \o data.text \o "\"\n}" ELSE data.text

\* ENV defines neither forgeApiUrl nor forgeApiKey
ENV_forgeApiUrl == FALSE
ENV_forgeApiKey == FALSE

\* imageGeneration.generateImage: the JSON body posted to v1/images/generations
imageRequestBody(options) ==
    [NoBody EXCEPT !.kind = "image", !.prompt = options.prompt]

\* the user message of analyzeFile / extractStructuredData / generateReport:
\* one text part, then one file_url part per file
fileRequestBody(prompt, fileList) ==
    [NoBody EXCEPT !.kind = "llm", !.prompt = prompt,
                   !.images = [i \in DOMAIN fileList |->
                                 [url |-> fileList[i].url, mimeType |-> fileList[i].mimeType]]]

\* ------------------------------------------------------------------- Init
\* The database outlives the server process: at start it is empty, or holds
\* what earlier requests of user 1 left (a conversation with the user message
\* of a chat turn whose gateway call failed, an uploaded file and a generated
\* image).
SeedUser == [id |-> 1, openId |-> MOCK_USER_OPEN_ID, name |-> MOCK_USER_NAME,
             lastSignedIn |-> 0]
SeedConversation == [id |-> 1, userId |-> 1, title |-> "Chat", createdAt |-> 0]
SeedMessage == [id |-> 1, conversationId |-> 1, userId |-> 1, role |-> "user",
                content |-> "Hello", createdAt |-> 0]
SeedFile == [id |-> 1, userId |-> 1, conversationId |-> 1, messageId |-> 0,
             filename |-> Filename, fileKey |-> <<1, 0, Filename>>,
             url |-> "https://storage.example/", mimeType |-> FileMime,
             size |-> 3, createdAt |-> 0]
SeedImage == [id |-> 1, conversationId |-> 1, messageId |-> 0, userId |-> 1,
              imageUrl |-> "data:image/png;base64,AAAA", imageKey |-> <<1, 0>>,
              mimeType |-> "image/png", description |-> "Hello", createdAt |-> 0]

InitEmpty ==
    /\ env \in [db : BOOLEAN, apiKey : BOOLEAN]
    /\ users = {}
    /\ conversations = {}
    /\ messages = {}
    /\ files = {}
    /\ imageReferences = {}
    /\ nextId = [user |-> 1, conv |-> 1, msg |-> 1, file |-> 1, img |-> 1]
    /\ storage = {}

InitSeeded ==
    /\ env = [db |-> TRUE, apiKey |-> TRUE]
    /\ users = {SeedUser}
    /\ conversations = {SeedConversation}
    /\ messages = {SeedMessage}
    /\ files = {SeedFile}
    /\ imageReferences = {SeedImage}
    /\ nextId = [user |-> 2, conv |-> 2, msg |-> 2, file |-> 2, img |-> 2]
    /\ storage = {SeedFile.fileKey}

Init ==
    /\ InitEmpty \/ InitSeeded
    /\ now = 0
    /\ req = [s \in Slots |-> Idle]
    /\ calls = 0
    /\ ClientInit

\* the database clock advances
Tick ==
    /\ now < MaxClock
    /\ now' = now + 1
    /\ UNCHANGED <<client, env, tables, storage, req, calls>>

\* ------------------------------------------------------------- requests
AdvancedOps == {"transcribeAudioFile", "analyzeFileContent",
                "generateReportFromFiles", "extractDataFromFile"}

Ops == {"createConversation", "getConversations", "getConversation",
        "deleteConversation", "getMessages", "deleteFile", "deleteMessage",
        "chat", "uploadFile", "getFiles", "generateImage", "getImageReferences"}
       \cup AdvancedOps

\* lists of ids a caller passes: none, one id, or all ids
IdLists == {{}} \cup {{i} : i \in 1..MaxId} \cup {1..MaxId}

Inputs(op) ==
    CASE op = "createConversation" -> {[NoInput EXCEPT !.title = t] : t \in Titles}
      [] op = "getConversations" -> {NoInput}
      [] op = "uploadFile" ->
            {[NoInput EXCEPT !.cid = c, !.data = d, !.mime = m] :
                c \in 1..MaxConv, d \in FileDatas, m \in {"", FileMime}}
      [] op = "generateImage" ->
            {[NoInput EXCEPT !.cid = c, !.text = t, !.ids = l, !.imgs = d] :
                c \in 1..MaxConv, t \in Texts, l \in IdLists, d \in DirectImages}
      [] op = "generateReportFromFiles" ->
            {[NoInput EXCEPT !.cid = c, !.text = t, !.ids = l] :
                c \in 1..MaxConv, t \in Texts, l \in IdLists}
      [] op \in AdvancedOps \ {"generateReportFromFiles"} ->
            {[NoInput EXCEPT !.cid = c] : c \in 1..MaxConv}
      [] op \in {"getConversation", "deleteConversation", "getMessages",
                 "getFiles", "getImageReferences"} ->
            {[NoInput EXCEPT !.cid = c] : c \in 1..MaxConv}
      [] op \in {"deleteMessage", "deleteFile"} ->
            {[NoInput EXCEPT !.id = m] : m \in 1..MaxId}
      [] op = "chat" ->
            {[NoInput EXCEPT !.cid = c, !.text = t] : c \in 1..MaxConv, t \in Texts}

\* a request arrives; handlers run one at a time (in the first slot)
Call(s) ==
    /\ s = 1
    /\ \A t \in Slots : req[t].pc = "idle"
    /\ calls < MaxCalls
    /\ calls' = calls + 1
    /\ \E op \in Ops, u \in Callers : \E i \in Inputs(op) :
         Put(s, [Idle EXCEPT !.pc = op, !.op = op, !.user = u, !.in = i,
                             !.pre = [conversations |-> conversations,
                                      messages |-> messages, files |-> files,
                                      imageReferences |-> imageReferences,
                                      storage |-> storage]])
    /\ UNCHANGED <<client, env, now, tables, storage>>

\* the response (result or error) has been delivered
Respond(s) ==
    /\ req[s].pc \in {"done", "failed"}
    /\ Put(s, Idle)
    /\ UNCHANGED <<calls, client, env, now, tables, storage>>

\* ------------------------------------------------- createConversation
\* db.createConversation, first statement: INSERT
createConversation_insert(s) ==
    LET q == req[s] IN
    /\ q.pc = "createConversation"
    /\ \E ok \in BOOLEAN :
         IF q.user = 0 THEN
             Put(s, Fail(q, NotAuthenticated)) /\ UNCHANGED tables
         ELSE IF ~getDb THEN
             Put(s, Fail(DbFailed(q), DbNotAvailable)) /\ UNCHANGED tables
         ELSE IF ~ok THEN
             Put(s, Fail(DbFailed(Wrote(q)), DbError)) /\ UNCHANGED tables
         ELSE
             /\ conversations' = conversations \cup
                    {[id |-> nextId.conv, userId |-> q.user,
                      title |-> q.in.title, createdAt |-> now]}
             /\ nextId' = [nextId EXCEPT !.conv = @ + 1]
             /\ Put(s, Goto(Inserted(Wrote(q), "conversations", nextId.conv),
                            "createConversation_select"))
             /\ UNCHANGED <<users, messages, files, imageReferences>>
    /\ UNCHANGED <<calls, client, env, now, storage>>

\* db.createConversation, second statement: the newest conversation of the user
createConversation_select(s) ==
    LET q == Read(req[s]) IN
    /\ q.pc = "createConversation_select"
    /\ \E ok \in BOOLEAN :
         IF ~ok THEN Put(s, Fail(DbFailed(q), DbError))
         ELSE LET mine == {c \in conversations : c.userId = q.user} IN
              IF mine = {} THEN
                  Put(s, Fail(q, "Failed to create conversation: database returned null"))
              ELSE \E created \in LatestByCreatedAt(mine) :
                  Put(s, Return(q, [NoResult EXCEPT !.kind = "row",
                                    !.rows = <<created>>, !.id = created.id]))
    /\ UNCHANGED <<calls, client, env, now, tables, storage>>

\* ------------------------------------ getConversations, getConversation
\* getConversations querying before it tests ctx.user
getConversations_proc_lookupFirst(s) ==
    LET q == req[s] IN
    /\ q.pc = "getConversations"
    /\ \E ok \in BOOLEAN : \E convs \in getConversations(q.user, ok) :
         IF q.user = 0 THEN Put(s, Fail(Queried(q, ok), NotAuthenticated))
         ELSE Put(s, Return(Queried(q, ok),
                            [NoResult EXCEPT !.kind = "rows", !.rows = convs]))
    /\ UNCHANGED <<calls, client, env, now, tables, storage>>

getConversations_proc(s) ==
    LET q == req[s] IN
    /\ q.pc = "getConversations"
    /\ \E ok \in BOOLEAN :
         IF q.user = 0 THEN Put(s, Fail(q, NotAuthenticated))
         ELSE \E convs \in getConversations(q.user, ok) :
              Put(s, Return(Queried(q, ok),
                            [NoResult EXCEPT !.kind = "rows", !.rows = convs]))
    /\ UNCHANGED <<calls, client, env, now, tables, storage>>

getConversation_proc(s) ==
    LET q == req[s] IN
    /\ q.pc = "getConversation"
    /\ \E ok \in BOOLEAN :
         IF q.user = 0 THEN Put(s, Fail(q, NotAuthenticated))
         ELSE LET conv == getConversation(q.in.cid, q.user, ok)
                  q1 == Queried(q, ok) IN
              IF conv = {} THEN Put(s, Fail(q1, ConvNotFound))
              ELSE \E c \in conv :
                  Put(s, Return(q1, [NoResult EXCEPT !.kind = "row",
                                     !.rows = <<c>>, !.id = c.id]))
    /\ UNCHANGED <<calls, client, env, now, tables, storage>>

\* ---------------------------------------------------- deleteConversation
\* db.deleteConversation looking the conversation up by id alone
deleteConversation_check_anyOwner(s) ==
    LET q == req[s] IN
    /\ q.pc = "deleteConversation"
    /\ \E ok \in BOOLEAN :
         IF q.user = 0 THEN Put(s, Fail(q, NotAuthenticated))
         ELSE IF ~getDb THEN Put(s, Fail(DbFailed(q), DbNotAvailable))
         ELSE LET conv == getConversation_anyOwner(q.in.cid, q.user, ok)
                  q1 == Queried(q, ok) IN
              IF conv = {} THEN
                  Put(s, Fail(q1, "Conversation not found or not owned by user"))
              ELSE Put(s, Goto(q1, "deleteConversation_messages"))
    /\ UNCHANGED <<calls, client, env, now, tables, storage>>

\* db.deleteConversation: ownership lookup
deleteConversation_check(s) ==
    LET q == req[s] IN
    /\ q.pc = "deleteConversation"
    /\ \E ok \in BOOLEAN :
         IF q.user = 0 THEN Put(s, Fail(q, NotAuthenticated))
         ELSE IF ~getDb THEN Put(s, Fail(DbFailed(q), DbNotAvailable))
         ELSE LET conv == getConversation(q.in.cid, q.user, ok)
                  q1 == Queried(q, ok) IN
              IF conv = {} THEN
                  Put(s, Fail(q1, "Conversation not found or not owned by user"))
              ELSE Put(s, Goto(q1, "deleteConversation_messages"))
    /\ UNCHANGED <<calls, client, env, now, tables, storage>>

\* deleteConversation deleting the conversation row along with its messages,
\* ahead of the files and the image references
deleteConversation_messages_rowFirst(s) ==
    LET q == req[s] IN
    /\ q.pc = "deleteConversation_messages"
    /\ \E ok \in BOOLEAN :
         IF ~ok THEN Put(s, Fail(DbFailed(Wrote(q)), DbError))
                     /\ UNCHANGED <<messages, conversations>>
         ELSE /\ messages' = {m \in messages : m.conversationId # q.in.cid}
              /\ conversations' = {c \in conversations : c.id # q.in.cid}
              /\ Put(s, Goto(Wrote(q), "deleteConversation_files"))
    /\ UNCHANGED <<users, calls, client, env, now, files, imageReferences, nextId, storage>>

\* DELETE FROM messages WHERE conversationId = ?
deleteConversation_messages(s) ==
    LET q == req[s] IN
    /\ q.pc = "deleteConversation_messages"
    /\ \E ok \in BOOLEAN :
         IF ~ok THEN Put(s, Fail(DbFailed(Wrote(q)), DbError)) /\ UNCHANGED messages
         ELSE /\ messages' = {m \in messages : m.conversationId # q.in.cid}
              /\ Put(s, Goto(Wrote(q), "deleteConversation_files"))
    /\ UNCHANGED <<users, calls, client, env, now, conversations, files, imageReferences, nextId, storage>>

\* deleteConversation without its DELETE FROM files
deleteConversation_files_skipped(s) ==
    LET q == req[s] IN
    /\ q.pc = "deleteConversation_files"
    /\ Put(s, Goto(q, "deleteConversation_imageReferences"))
    /\ UNCHANGED <<calls, client, env, now, tables, storage>>

\* DELETE FROM files WHERE conversationId = ?
deleteConversation_files(s) ==
    LET q == req[s] IN
    /\ q.pc = "deleteConversation_files"
    /\ \E ok \in BOOLEAN :
         IF ~ok THEN Put(s, Fail(DbFailed(Wrote(q)), DbError)) /\ UNCHANGED files
         ELSE /\ files' = {f \in files : f.conversationId # q.in.cid}
              /\ Put(s, Goto(Wrote(q), "deleteConversation_imageReferences"))
    /\ UNCHANGED <<users, calls, client, env, now, conversations, messages, imageReferences, nextId, storage>>

\* DELETE FROM imageReferences WHERE conversationId = ?
deleteConversation_imageReferences(s) ==
    LET q == req[s] IN
    /\ q.pc = "deleteConversation_imageReferences"
    /\ \E ok \in BOOLEAN :
         IF ~ok THEN Put(s, Fail(DbFailed(Wrote(q)), DbError)) /\ UNCHANGED imageReferences
         ELSE /\ imageReferences' = {i \in imageReferences : i.conversationId # q.in.cid}
              /\ Put(s, Goto(Wrote(q), "deleteConversation_conversations"))
    /\ UNCHANGED <<users, calls, client, env, now, conversations, messages, files, nextId, storage>>

\* DELETE FROM conversations WHERE id = ?
deleteConversation_conversations(s) ==
    LET q == req[s] IN
    /\ q.pc = "deleteConversation_conversations"
    /\ \E ok \in BOOLEAN :
         IF ~ok THEN Put(s, Fail(DbFailed(Wrote(q)), DbError)) /\ UNCHANGED conversations
         ELSE /\ conversations' = {c \in conversations : c.id # q.in.cid}
              /\ Put(s, Return(Wrote(q), [NoResult EXCEPT !.kind = "success"]))
    /\ UNCHANGED <<users, calls, client, env, now, messages, files, imageReferences, nextId, storage>>

\* --------------------------------------------------- shared handler steps
\* the ownership check reduced to an existence check
Guard_existenceOnly(s, next) ==
    LET q == req[s] IN
    \E ok \in BOOLEAN :
        IF q.user = 0 THEN Put(s, Fail(q, NotAuthenticated))
        ELSE LET conv == IF ~getDb \/ ~ok THEN {}
                         ELSE {c \in conversations : c.id = q.in.cid}
                 q1 == Queried(q, ok) IN
             IF conv = {} THEN Put(s, Fail(q1, ConvNotFound))
             ELSE Put(s, Goto(q1, next))

\* "if (!ctx.user || !ctx.user.id) throw", then "Verify user owns this
\* conversation": getConversation(input.conversationId, ctx.user.id)
Guard(s, next) ==
    LET q == req[s] IN
    \E ok \in BOOLEAN :
        IF q.user = 0 THEN Put(s, Fail(q, NotAuthenticated))
        ELSE LET conv == getConversation(q.in.cid, q.user, ok)
                 q1 == Queried(q, ok) IN
             IF conv = {} THEN Put(s, Fail(q1, ConvNotFound))
             ELSE Put(s, Goto(q1, next))

\* db.createMessage, first statement: INSERT
createMessage_insert(s, role, content, next) ==
    LET q == req[s] IN
    \E ok \in BOOLEAN :
        IF ~getDb THEN
            Put(s, Fail(DbFailed(q), DbNotAvailable)) /\ UNCHANGED <<messages, nextId>>
        ELSE IF ~ok THEN
            Put(s, Fail(DbFailed(Wrote(q)), DbError)) /\ UNCHANGED <<messages, nextId>>
        ELSE
            /\ messages' = messages \cup
                   {[id |-> nextId.msg, conversationId |-> q.in.cid,
                     userId |-> q.user, role |-> role, content |-> content,
                     createdAt |-> now]}
            /\ nextId' = [nextId EXCEPT !.msg = @ + 1]
            /\ Put(s, Goto(Inserted(Wrote(q), "messages", nextId.msg), next))

\* db.createMessage, second statement: the newest message of the conversation
\* ({} stands for null)
createMessage_select(conversationId) ==
    LET rows == {m \in messages : m.conversationId = conversationId} IN
    IF rows = {} THEN {{}} ELSE {{m} : m \in LatestByCreatedAt(rows)}

\* ------------------------------------------------------------ getMessages
getMessages_guard(s) ==
    /\ req[s].pc = "getMessages"
    /\ Guard(s, "getMessages_select")
    /\ UNCHANGED <<calls, client, env, now, tables, storage>>

getMessages_select(s) ==
    LET q == req[s] IN
    /\ q.pc = "getMessages_select"
    /\ \E ok \in BOOLEAN : \E msgs \in getMessages(q.in.cid, ok) :
         Put(s, Return(Queried(q, ok),
                       [NoResult EXCEPT !.kind = "rows", !.rows = msgs]))
    /\ UNCHANGED <<calls, client, env, now, tables, storage>>

\* ---------------------------------------------------------- deleteMessage
\* db.deleteMessage without the test of message[0].userId
deleteMessage_check_noOwnerTest(s) ==
    LET q == req[s] IN
    /\ q.pc = "deleteMessage"
    /\ \E ok \in BOOLEAN :
         IF q.user = 0 THEN Put(s, Fail(q, NotAuthenticated))
         ELSE IF ~getDb THEN Put(s, Fail(DbFailed(q), DbNotAvailable))
         ELSE IF ~ok THEN Put(s, Fail(DbFailed(Read(q)), DbError))
         ELSE LET message == {m \in messages : m.id = q.in.id} IN
              IF message = {} THEN Put(s, Fail(Read(q), "Message not found"))
              ELSE Put(s, Goto(Read(q), "deleteMessage_delete"))
    /\ UNCHANGED <<calls, client, env, now, tables, storage>>

\* db.deleteMessage: SELECT by id, then the two ownership tests
deleteMessage_check(s) ==
    LET q == req[s] IN
    /\ q.pc = "deleteMessage"
    /\ \E ok \in BOOLEAN :
         IF q.user = 0 THEN Put(s, Fail(q, NotAuthenticated))
         ELSE IF ~getDb THEN Put(s, Fail(DbFailed(q), DbNotAvailable))
         ELSE IF ~ok THEN Put(s, Fail(DbFailed(Read(q)), DbError))
         ELSE LET message == {m \in messages : m.id = q.in.id} IN
              IF message = {} THEN Put(s, Fail(Read(q), "Message not found"))
              ELSE IF \E m \in message : m.userId # q.user THEN
                  Put(s, Fail(Read(q), "Message not owned by user"))
              ELSE Put(s, Goto(Read(q), "deleteMessage_delete"))
    /\ UNCHANGED <<calls, client, env, now, tables, storage>>

\* a DELETE on messages that carries no WHERE clause
deleteMessage_delete_noWhere(s) ==
    LET q == req[s] IN
    /\ q.pc = "deleteMessage_delete"
    /\ \E ok \in BOOLEAN :
         IF ~ok THEN Put(s, Fail(DbFailed(Wrote(q)), DbError)) /\ UNCHANGED messages
         ELSE /\ messages' = {}
              /\ Put(s, Return(Wrote(q), [NoResult EXCEPT !.kind = "success"]))
    /\ UNCHANGED <<users, calls, client, env, now, conversations, files, imageReferences, nextId, storage>>

\* DELETE FROM messages WHERE id = ?
deleteMessage_delete(s) ==
    LET q == req[s] IN
    /\ q.pc = "deleteMessage_delete"
    /\ \E ok \in BOOLEAN :
         IF ~ok THEN Put(s, Fail(DbFailed(Wrote(q)), DbError)) /\ UNCHANGED messages
         ELSE /\ messages' = {m \in messages : m.id # q.in.id}
              /\ Put(s, Return(Wrote(q), [NoResult EXCEPT !.kind = "success"]))
    /\ UNCHANGED <<users, calls, client, env, now, conversations, files, imageReferences, nextId, storage>>

\* ------------------------------------------------------------------ chat
chat_guard(s) ==
    /\ req[s].pc = "chat"
    /\ Guard(s, "chat_saveUser_insert")
    /\ UNCHANGED <<calls, client, env, now, tables, storage>>

\* "Save user message": createMessage(conversationId, user, "user", input.message)
chat_saveUser_insert(s) ==
    /\ req[s].pc = "chat_saveUser_insert"
    /\ createMessage_insert(s, "user", req[s].in.text, "chat_saveUser_select")
    /\ UNCHANGED <<users, calls, client, env, now, conversations, files, imageReferences, storage>>

chat_saveUser_select(s) ==
    LET q == Read(req[s]) IN
    /\ q.pc = "chat_saveUser_select"
    /\ \E ok \in BOOLEAN :
         IF ~ok THEN Put(s, Fail(DbFailed(q), DbError))
         ELSE \E userMsg \in createMessage_select(q.in.cid) :
              IF userMsg = {} THEN Put(s, Fail(q, "Failed to save user message"))
              ELSE Put(s, Goto(q, "chat_history"))
    /\ UNCHANGED <<calls, client, env, now, tables, storage>>

\* "Get conversation history for context" and "Build message array for LLM"
chat_history(s) ==
    LET q == req[s] IN
    /\ q.pc = "chat_history"
    /\ \E ok \in BOOLEAN : \E history \in getMessages(q.in.cid, ok) :
         LET llmMessages == [i \in DOMAIN history |->
                               [role |-> history[i].role, content |-> history[i].content]]
             q1 == Queried(q, ok) IN
         Put(s, Goto([q1 EXCEPT !.loc.rows = llmMessages], "chat_invokeLLM"))
    /\ UNCHANGED <<calls, client, env, now, tables, storage>>

\* a chat turn that removes its user message when the gateway call fails
chat_invokeLLM_rollsBack(s) ==
    LET q == req[s]
        q1 == [q EXCEPT !.gw = @ + 1,
                        !.sent = [NoBody EXCEPT !.kind = "chat", !.messages = q.loc.rows]] IN
    /\ q.pc = "chat_invokeLLM"
    /\ \/ /\ Put(s, Fail(q1, "LLM invoke failed"))
          /\ messages' = {r \in messages : <<"messages", r.id>> \notin q.ins}
       \/ /\ \E llmResponse \in LLMResponses :
               Put(s, Goto([q1 EXCEPT !.loc.llmResponse = llmResponse,
                                      !.loc.content = responseContent(llmResponse)],
                           "chat_saveAi_insert"))
          /\ UNCHANGED messages
    /\ UNCHANGED <<calls, client, env, now, users, conversations, files, imageReferences,
                   nextId, storage>>

\* "Call LLM for response" and the extraction of responseContent
chat_invokeLLM(s) ==
    LET q == req[s]
        q1 == [q EXCEPT !.gw = @ + 1,
                        !.sent = [NoBody EXCEPT !.kind = "chat", !.messages = q.loc.rows]] IN
    /\ q.pc = "chat_invokeLLM"
    /\ \/ Put(s, Fail(q1, "LLM invoke failed"))
       \/ \E llmResponse \in LLMResponses :
            Put(s, Goto([q1 EXCEPT !.loc.llmResponse = llmResponse,
                                   !.loc.content = responseContent(llmResponse)],
                        "chat_saveAi_insert"))
    /\ UNCHANGED <<calls, client, env, now, tables, storage>>

\* the AI response saved with the text of the user's message
chat_saveAi_insert_userText(s) ==
    /\ req[s].pc = "chat_saveAi_insert"
    /\ createMessage_insert(s, "assistant", req[s].in.text, "chat_saveAi_select")
    /\ UNCHANGED <<users, calls, client, env, now, conversations, files, imageReferences, storage>>

\* "Save AI response": createMessage(conversationId, user, "assistant", responseContent)
chat_saveAi_insert(s) ==
    /\ req[s].pc = "chat_saveAi_insert"
    /\ createMessage_insert(s, "assistant", req[s].loc.content, "chat_saveAi_select")
    /\ UNCHANGED <<users, calls, client, env, now, conversations, files, imageReferences, storage>>

chat_saveAi_select(s) ==
    LET q == Read(req[s]) IN
    /\ q.pc = "chat_saveAi_select"
    /\ \E ok \in BOOLEAN :
         IF ~ok THEN Put(s, Fail(DbFailed(q), DbError))
         ELSE \E aiMsg \in createMessage_select(q.in.cid) :
              IF aiMsg = {} THEN Put(s, Fail(q, "Failed to save AI response"))
              ELSE \E m \in aiMsg :
                  Put(s, Return(q, [NoResult EXCEPT !.kind = "chat",
                                    !.text = q.loc.content, !.id = m.id]))
    /\ UNCHANGED <<calls, client, env, now, tables, storage>>

\* ------------------------------------------------------------- uploadFile
\* ownership check, base64 decoding and the size test
uploadFile_guard(s) ==
    LET q == req[s] IN
    /\ q.pc = "uploadFile"
    /\ \E ok \in BOOLEAN :
         IF q.user = 0 THEN Put(s, Fail(q, NotAuthenticated))
         ELSE LET conv == getConversation(q.in.cid, q.user, ok)
                  q1 == Queried(q, ok)
                  length == DecodedLength(q.in.data) IN
              IF conv = {} THEN Put(s, Fail(q1, ConvNotFound))
              ELSE IF exceedsLimit(length) THEN
                  Put(s, Fail(q1, "File is too large. Maximum size is 100MB"))
              ELSE Put(s, Goto([q1 EXCEPT !.loc.size = length], "uploadFile_storagePut"))
    /\ UNCHANGED <<calls, client, env, now, tables, storage>>

\* "Upload to S3": storagePut(fileKey, buffer, mimeType)
uploadFile_storagePut(s) ==
    LET q == req[s]
        fileKey == <<q.user, now, Filename>>
        q1 == [q EXCEPT !.stw = @ + 1] IN
    /\ q.pc = "uploadFile_storagePut"
    /\ \/ Put(s, Fail(q1, "Storage upload failed")) /\ UNCHANGED storage
       \/ /\ storage' = storage \cup {fileKey}
          /\ Put(s, Goto([q1 EXCEPT !.loc.key = fileKey, !.loc.url = "https://storage.example/"],
                         "uploadFile_insert"))
    /\ UNCHANGED <<calls, client, env, now, tables>>

\* "Save file metadata": db.createFile, first statement: INSERT
uploadFile_insert(s) ==
    LET q == req[s] IN
    /\ q.pc = "uploadFile_insert"
    /\ \E ok \in BOOLEAN :
         IF ~getDb THEN
             Put(s, Fail(DbFailed(q), DbNotAvailable)) /\ UNCHANGED <<files, nextId>>
         ELSE IF ~ok THEN
             Put(s, Fail(DbFailed(Wrote(q)), DbError)) /\ UNCHANGED <<files, nextId>>
         ELSE
             /\ files' = files \cup
                    {[id |-> nextId.file, userId |-> q.user,
                      conversationId |-> q.in.cid, messageId |-> 0,
                      filename |-> Filename, fileKey |-> q.loc.key,
                      url |-> q.loc.url, mimeType |-> q.in.mime,
                      size |-> q.loc.size, createdAt |-> now]}
             /\ nextId' = [nextId EXCEPT !.file = @ + 1]
             /\ Put(s, Goto(Inserted(Wrote(q), "files", nextId.file), "uploadFile_select"))
    /\ UNCHANGED <<users, calls, client, env, now, conversations, messages, imageReferences, storage>>

\* db.createFile, second statement: the newest file of the user
uploadFile_select(s) ==
    LET q == Read(req[s]) IN
    /\ q.pc = "uploadFile_select"
    /\ \E ok \in BOOLEAN :
         IF ~ok THEN Put(s, Fail(DbFailed(q), DbError))
         ELSE LET mine == {f \in files : f.userId = q.user} IN
              IF mine = {} THEN Put(s, Fail(q, "Failed to save file metadata"))
              ELSE \E file \in LatestByCreatedAt(mine) :
                  Put(s, Return(q, [NoResult EXCEPT !.kind = "row",
                                    !.rows = <<file>>, !.id = file.id]))
    /\ UNCHANGED <<calls, client, env, now, tables, storage>>

\* --------------------------------------------------- getFiles, deleteFile
getFiles_guard(s) ==
    /\ req[s].pc = "getFiles"
    /\ Guard(s, "getFiles_select")
    /\ UNCHANGED <<calls, client, env, now, tables, storage>>

getFiles_select(s) ==
    LET q == req[s] IN
    /\ q.pc = "getFiles_select"
    /\ \E ok \in BOOLEAN : \E fileList \in getFiles(q.in.cid, 0, ok) :
         Put(s, Return(Queried(q, ok),
                       [NoResult EXCEPT !.kind = "rows", !.rows = fileList]))
    /\ UNCHANGED <<calls, client, env, now, tables, storage>>

\* "Verify user owns this file"
deleteFile_check(s) ==
    LET q == req[s] IN
    /\ q.pc = "deleteFile"
    /\ \E ok \in BOOLEAN :
         IF q.user = 0 THEN Put(s, Fail(q, NotAuthenticated))
         ELSE IF ~getDb THEN Put(s, Fail(DbFailed(q), DbNotAvailable))
         ELSE IF ~ok THEN Put(s, Fail(DbFailed(Read(q)), DbError))
         ELSE LET file == {f \in files : f.id = q.in.id} IN
              IF file = {} \/ \E f \in file : f.userId # q.user THEN
                  Put(s, Fail(Read(q), "File not found or unauthorized"))
              ELSE Put(s, Goto(Read(q), "deleteFile_delete"))
    /\ UNCHANGED <<calls, client, env, now, tables, storage>>

\* "Delete from database"
deleteFile_delete(s) ==
    LET q == req[s] IN
    /\ q.pc = "deleteFile_delete"
    /\ \E ok \in BOOLEAN :
         IF ~ok THEN Put(s, Fail(DbFailed(Wrote(q)), DbError)) /\ UNCHANGED files
         ELSE /\ files' = {f \in files : f.id # q.in.id}
              /\ Put(s, Return(Wrote(q), [NoResult EXCEPT !.kind = "success"]))
    /\ UNCHANGED <<users, calls, client, env, now, conversations, messages, imageReferences, nextId, storage>>

\* ---------------------------------------------------------- generateImage
\* ownership check, then the choice of the source of originalImages
generateImage_guard(s) ==
    LET q == req[s] IN
    /\ q.pc = "generateImage"
    /\ \E ok \in BOOLEAN :
         IF q.user = 0 THEN Put(s, Fail(q, NotAuthenticated))
         ELSE LET conv == getConversation(q.in.cid, q.user, ok)
                  q1 == Queried(q, ok) IN
              IF conv = {} THEN Put(s, Fail(q1, ConvNotFound))
              ELSE IF Len(q.in.imgs) > 0 THEN
                  Put(s, Goto([q1 EXCEPT !.loc.imgs = q.in.imgs], "generateImage_generate"))
              ELSE IF q.in.ids # {} THEN Put(s, Goto(q1, "generateImage_resolve"))
              ELSE Put(s, Goto(q1, "generateImage_generate"))
    /\ UNCHANGED <<calls, client, env, now, tables, storage>>

\* getImageReferences(conversationId), filtered by imageReferenceIds
generateImage_resolve(s) ==
    LET q == req[s] IN
    /\ q.pc = "generateImage_resolve"
    /\ \E ok \in BOOLEAN : \E allImageRefs \in getImageReferences(q.in.cid, ok) :
         LET selected == SelectIds(allImageRefs, q.in.ids)
             originalImages == [i \in DOMAIN selected |->
                                  [url |-> selected[i].imageUrl,
                                   mimeType |-> IF selected[i].mimeType = "" THEN "image/png"
                                                ELSE selected[i].mimeType]]
             q1 == Queried(q, ok) IN
         Put(s, Goto([q1 EXCEPT !.loc.imgs = originalImages], "generateImage_generate"))
    /\ UNCHANGED <<calls, client, env, now, tables, storage>>

\* generateImage going on to save a reference when the image service failed
generateImage_generate_ignoresFailure(s) ==
    LET q == req[s]
        generateParams == [prompt |-> q.in.text, originalImages |-> q.loc.imgs]
        q1 == [q EXCEPT !.gw = @ + 1, !.sent = imageRequestBody(generateParams)] IN
    /\ q.pc = "generateImage_generate"
    /\ \/ Put(s, Goto(q1, "generateImage_insert"))
       \/ \E base64Data \in ImagePayloads :
            Put(s, Goto([q1 EXCEPT !.loc.url = "data:image/png;base64," \o base64Data],
                        "generateImage_insert"))
    /\ UNCHANGED <<calls, client, env, now, tables, storage>>

\* imageGeneration.generateImage(generateParams) and the test of result.url
generateImage_generate(s) ==
    LET q == req[s]
        generateParams == [prompt |-> q.in.text, originalImages |-> q.loc.imgs]
        q1 == [q EXCEPT !.gw = @ + 1, !.sent = imageRequestBody(generateParams)] IN
    /\ q.pc = "generateImage_generate"
    /\ IF ~env.apiKey THEN Put(s, Fail(q, "OPENAI_API_KEY is not configured"))
       ELSE \/ Put(s, Fail(q1, "Image generation request failed"))
            \/ \E base64Data \in ImagePayloads :
                 Put(s, Goto([q1 EXCEPT !.loc.url = "data:image/png;base64," \o base64Data],
                             "generateImage_insert"))
    /\ UNCHANGED <<calls, client, env, now, tables, storage>>

\* "Save image reference": db.createImageReference, first statement: INSERT
generateImage_insert(s) ==
    LET q == req[s] IN
    /\ q.pc = "generateImage_insert"
    /\ \E ok \in BOOLEAN :
         IF ~getDb THEN
             Put(s, Fail(DbFailed(q), DbNotAvailable)) /\ UNCHANGED <<imageReferences, nextId>>
         ELSE IF ~ok THEN
             Put(s, Fail(DbFailed(Wrote(q)), DbError)) /\ UNCHANGED <<imageReferences, nextId>>
         ELSE
             /\ imageReferences' = imageReferences \cup
                    {[id |-> nextId.img, conversationId |-> q.in.cid, messageId |-> 0,
                      userId |-> q.user, imageUrl |-> q.loc.url,
                      imageKey |-> <<q.user, now>>, mimeType |-> "image/png",
                      description |-> q.in.text, createdAt |-> now]}
             /\ nextId' = [nextId EXCEPT !.img = @ + 1]
             /\ Put(s, Goto(Inserted(Wrote(q), "imageReferences", nextId.img),
                            "generateImage_select"))
    /\ UNCHANGED <<users, calls, client, env, now, conversations, messages, files, storage>>

\* db.createImageReference, second statement: the newest image of the conversation
generateImage_select(s) ==
    LET q == Read(req[s]) IN
    /\ q.pc = "generateImage_select"
    /\ \E ok \in BOOLEAN :
         IF ~ok THEN Put(s, Fail(DbFailed(q), DbError))
         ELSE LET rows == {i \in imageReferences : i.conversationId = q.in.cid} IN
              IF rows = {} THEN Put(s, Fail(q, "Failed to save image reference"))
              ELSE \E imageRef \in LatestByCreatedAt(rows) :
                  Put(s, Return(q, [NoResult EXCEPT !.kind = "row",
                                    !.rows = <<imageRef>>, !.id = imageRef.id]))
    /\ UNCHANGED <<calls, client, env, now, tables, storage>>

\* ----------------------------------------------------- getImageReferences
getImageReferences_guard(s) ==
    /\ req[s].pc = "getImageReferences"
    /\ Guard(s, "getImageReferences_select")
    /\ UNCHANGED <<calls, client, env, now, tables, storage>>

getImageReferences_select(s) ==
    LET q == req[s] IN
    /\ q.pc = "getImageReferences_select"
    /\ \E ok \in BOOLEAN : \E refs \in getImageReferences(q.in.cid, ok) :
         Put(s, Return(Queried(q, ok),
                       [NoResult EXCEPT !.kind = "rows", !.rows = refs]))
    /\ UNCHANGED <<calls, client, env, now, tables, storage>>

\* ------------------------------------------------- advanced capabilities
transcribeAudioFile_guard(s) ==
    /\ req[s].pc = "transcribeAudioFile"
    /\ Guard(s, "transcribeAudioFile_call")
    /\ UNCHANGED <<calls, client, env, now, tables, storage>>

\* transcribeAudio(fileUrl, mimeType)
transcribeAudioFile_call(s) ==
    LET q == req[s]
        q1 == [q EXCEPT !.gw = @ + 1,
                        !.sent = [NoBody EXCEPT !.kind = "transcribe", !.prompt = FileUrl]] IN
    /\ q.pc = "transcribeAudioFile_call"
    /\ IF ~ENV_forgeApiUrl \/ ~ENV_forgeApiKey THEN
           Put(s, Fail(q, "Manus API credentials not configured"))
       ELSE \/ Put(s, Fail(q1, "Transcription failed"))
            \/ \E text \in Texts :
                 Put(s, Goto([q1 EXCEPT !.loc.text = text,
                                        !.loc.content = "Audio Transcription:\n\n" \o text],
                             "advanced_insert"))
    /\ UNCHANGED <<calls, client, env, now, tables, storage>>

analyzeFileContent_guard(s) ==
    /\ req[s].pc = "analyzeFileContent"
    /\ Guard(s, "analyzeFileContent_call")
    /\ UNCHANGED <<calls, client, env, now, tables, storage>>

\* analyzeFile(fileUrl, filename, mimeType, userPrompt)
analyzeFileContent_call(s) ==
    LET q == req[s]
        q1 == [q EXCEPT !.gw = @ + 1,
                        !.sent = fileRequestBody("analyze",
                                   <<[url |-> FileUrl, mimeType |-> FileMime]>>)] IN
    /\ q.pc = "analyzeFileContent_call"
    /\ \/ Put(s, Fail(q1, "LLM invoke failed"))
       \/ \E result \in LLMResponses :
            LET analysisText == responseText(result) IN
            Put(s, Goto([q1 EXCEPT !.loc.text = analysisText,
                                   !.loc.content = "File Analysis: " \o Filename
                                                   \o "\n\n" \o analysisText],
                        "advanced_insert"))
    /\ UNCHANGED <<calls, client, env, now, tables, storage>>

generateReportFromFiles_guard(s) ==
    /\ req[s].pc = "generateReportFromFiles"
    /\ Guard(s, "generateReportFromFiles_getFiles")
    /\ UNCHANGED <<calls, client, env, now, tables, storage>>

\* getFiles(conversationId, undefined), filtered by fileIds
generateReportFromFiles_getFiles(s) ==
    LET q == req[s] IN
    /\ q.pc = "generateReportFromFiles_getFiles"
    /\ \E ok \in BOOLEAN : \E allFiles \in getFiles(q.in.cid, 0, ok) :
         LET selectedFiles == SelectIds(allFiles, q.in.ids)
             q1 == Queried(q, ok) IN
         IF Len(selectedFiles) = 0 THEN
             Put(s, Fail(q1, "No files found for report generation"))
         ELSE Put(s, Goto([q1 EXCEPT !.loc.imgs =
                             [i \in DOMAIN selectedFiles |->
                                [url |-> selectedFiles[i].url,
                                 mimeType |-> IF selectedFiles[i].mimeType = ""
                                              THEN "application/octet-stream"
                                              ELSE selectedFiles[i].mimeType]]],
                          "generateReportFromFiles_call"))
    /\ UNCHANGED <<calls, client, env, now, tables, storage>>

\* generateReport(files, reportPrompt)
generateReportFromFiles_call(s) ==
    LET q == req[s]
        q1 == [q EXCEPT !.gw = @ + 1, !.sent = fileRequestBody(q.in.text, q.loc.imgs)] IN
    /\ q.pc = "generateReportFromFiles_call"
    /\ \/ Put(s, Fail(q1, "LLM invoke failed"))
       \/ \E result \in LLMResponses :
            LET report == responseText(result) IN
            Put(s, Goto([q1 EXCEPT !.loc.text = report,
                                   !.loc.content = "Generated Report\n\n" \o report],
                        "advanced_insert"))
    /\ UNCHANGED <<calls, client, env, now, tables, storage>>

extractDataFromFile_guard(s) ==
    /\ req[s].pc = "extractDataFromFile"
    /\ Guard(s, "extractDataFromFile_call")
    /\ UNCHANGED <<calls, client, env, now, tables, storage>>

\* extractStructuredData without the catch around JSON.parse
extractDataFromFile_call_strictParse(s) ==
    LET q == req[s]
        q1 == [q EXCEPT !.gw = @ + 1,
                        !.sent = fileRequestBody("extract",
                                   <<[url |-> FileUrl, mimeType |-> FileMime]>>)] IN
    /\ q.pc = "extractDataFromFile_call"
    /\ \/ Put(s, Fail(q1, "LLM invoke failed"))
       \/ \E result \in LLMResponses :
            IF responseText(result) \notin JsonTexts THEN
                Put(s, Fail([q1 EXCEPT !.loc.llmResponse = result],
                            "Unexpected token in JSON"))
            ELSE
            LET extractedData == parseOrRaw(responseText(result)) IN
            Put(s, Goto([q1 EXCEPT !.loc.llmResponse = result,
                                   !.loc.text = stringify(extractedData),
                                   !.loc.content = "Data Extraction from " \o Filename
                                       \o "\n\n" \o Fence \o "json\n" \o stringify(extractedData)
                                       \o "\n" \o Fence],
                        "advanced_insert"))
    /\ UNCHANGED <<calls, client, env, now, tables, storage>>

\* extractStructuredData(fileUrl, filename, mimeType, schema, schemaName)
extractDataFromFile_call(s) ==
    LET q == req[s]
        q1 == [q EXCEPT !.gw = @ + 1,
                        !.sent = fileRequestBody("extract",
                                   <<[url |-> FileUrl, mimeType |-> FileMime]>>)] IN
    /\ q.pc = "extractDataFromFile_call"
    /\ \/ Put(s, Fail(q1, "LLM invoke failed"))
       \/ \E result \in LLMResponses :
            LET extractedData == parseOrRaw(responseText(result)) IN
            Put(s, Goto([q1 EXCEPT !.loc.llmResponse = result,
                                   !.loc.text = stringify(extractedData),
                                   !.loc.content = "Data Extraction from " \o Filename
                                       \o "\n\n" \o Fence \o "json\n" \o stringify(extractedData)
                                       \o "\n" \o Fence],
                        "advanced_insert"))
    /\ UNCHANGED <<calls, client, env, now, tables, storage>>

\* the createMessage(conversationId, user, "assistant", ...) that ends each
\* advanced procedure
advanced_insert(s) ==
    /\ req[s].pc = "advanced_insert"
    /\ createMessage_insert(s, "assistant", req[s].loc.content, "advanced_select")
    /\ UNCHANGED <<users, calls, client, env, now, conversations, files, imageReferences, storage>>

\* second statement of that createMessage, and the return value with message?.id
advanced_select(s) ==
    LET q == Read(req[s]) IN
    /\ q.pc = "advanced_select"
    /\ \E ok \in BOOLEAN :
         IF ~ok THEN Put(s, Fail(DbFailed(q), DbError))
         ELSE \E message \in createMessage_select(q.in.cid) :
              Put(s, Return(q, [NoResult EXCEPT !.kind = "advanced", !.text = q.loc.text,
                                !.id = IF message = {} THEN 0
                                       ELSE (CHOOSE m \in message : TRUE).id]))
    /\ UNCHANGED <<calls, client, env, now, tables, storage>>

\* ------------------------------------------------------------------ Next
Next ==
    \/ Tick
    \/ \E s \in Slots : Call(s)
    \/ \E s \in Slots : Respond(s)
    \/ \E s \in Slots : createConversation_insert(s)
    \/ \E s \in Slots : createConversation_select(s)
    \/ \E s \in Slots : getConversations_proc(s)
    \/ \E s \in Slots : getConversation_proc(s)
    \/ \E s \in Slots : deleteConversation_check(s)
    \/ \E s \in Slots : deleteConversation_messages(s)
    \/ \E s \in Slots : deleteConversation_files(s)
    \/ \E s \in Slots : deleteConversation_imageReferences(s)
    \/ \E s \in Slots : deleteConversation_conversations(s)
    \/ \E s \in Slots : getMessages_guard(s)
    \/ \E s \in Slots : getMessages_select(s)
    \/ \E s \in Slots : deleteMessage_check(s)
    \/ \E s \in Slots : deleteMessage_delete(s)
    \/ \E s \in Slots : chat_guard(s)
    \/ \E s \in Slots : chat_saveUser_insert(s)
    \/ \E s \in Slots : chat_saveUser_select(s)
    \/ \E s \in Slots : chat_history(s)
    \/ \E s \in Slots : chat_invokeLLM(s)
    \/ \E s \in Slots : chat_saveAi_insert(s)
    \/ \E s \in Slots : chat_saveAi_select(s)
    \/ \E s \in Slots : uploadFile_guard(s)
    \/ \E s \in Slots : uploadFile_storagePut(s)
    \/ \E s \in Slots : uploadFile_insert(s)
    \/ \E s \in Slots : uploadFile_select(s)
    \/ \E s \in Slots : getFiles_guard(s)
    \/ \E s \in Slots : getFiles_select(s)
    \/ \E s \in Slots : deleteFile_check(s)
    \/ \E s \in Slots : deleteFile_delete(s)
    \/ \E s \in Slots : generateImage_guard(s)
    \/ \E s \in Slots : generateImage_resolve(s)
    \/ \E s \in Slots : generateImage_generate(s)
    \/ \E s \in Slots : generateImage_insert(s)
    \/ \E s \in Slots : generateImage_select(s)
    \/ \E s \in Slots : getImageReferences_guard(s)
    \/ \E s \in Slots : getImageReferences_select(s)
    \/ \E s \in Slots : transcribeAudioFile_guard(s)
    \/ \E s \in Slots : transcribeAudioFile_call(s)
    \/ \E s \in Slots : analyzeFileContent_guard(s)
    \/ \E s \in Slots : analyzeFileContent_call(s)
    \/ \E s \in Slots : generateReportFromFiles_guard(s)
    \/ \E s \in Slots : generateReportFromFiles_getFiles(s)
    \/ \E s \in Slots : generateReportFromFiles_call(s)
    \/ \E s \in Slots : extractDataFromFile_guard(s)
    \/ \E s \in Slots : extractDataFromFile_call(s)
    \/ \E s \in Slots : advanced_insert(s)
    \/ \E s \in Slots : advanced_select(s)

Spec == Init /\ [][Next]_vars

\* ------------------------------------------------- two owners
\* The same handlers, one at a time, on a database in which user 2 too has a
\* conversation with a message, a file and an image.
SecondUser == [id |-> 2, openId |-> "oauth-user-2", name |-> "Second User",
               lastSignedIn |-> 0]
SecondConversation == [id |-> 2, userId |-> 2, title |-> "Chat", createdAt |-> 0]
SecondMessage == [id |-> 2, conversationId |-> 2, userId |-> 2, role |-> "user",
                  content |-> "Hello", createdAt |-> 0]
SecondFile == [id |-> 2, userId |-> 2, conversationId |-> 2, messageId |-> 0,
               filename |-> Filename, fileKey |-> <<2, 0, Filename>>,
               url |-> "https://storage.example/2", mimeType |-> FileMime,
               size |-> 3, createdAt |-> 0]
SecondImage == [id |-> 2, conversationId |-> 2, messageId |-> 0, userId |-> 2,
                imageUrl |-> "data:image/png;base64,BBBB", imageKey |-> <<2, 0>>,
                mimeType |-> "image/png", description |-> "Hello", createdAt |-> 0]

InitSeededTwo ==
    /\ env = [db |-> TRUE, apiKey |-> TRUE]
    /\ users = {SeedUser, SecondUser}
    /\ conversations = {SeedConversation, SecondConversation}
    /\ messages = {SeedMessage, SecondMessage}
    /\ files = {SeedFile, SecondFile}
    /\ imageReferences = {SeedImage, SecondImage}
    /\ nextId = [user |-> 3, conv |-> 3, msg |-> 3, file |-> 3, img |-> 3]
    /\ storage = {SeedFile.fileKey, SecondFile.fileKey}

InitTwoOwners ==
    /\ InitSeededTwo
    /\ now = 0
    /\ req = [s \in Slots |-> Idle]
    /\ calls = 0
    /\ ClientInit

CallTwoOwners(s) ==
    /\ s = 1
    /\ \A t \in Slots : req[t].pc = "idle"
    /\ calls < MaxCallsTwoOwners
    /\ calls' = calls + 1
    /\ \E op \in Ops, u \in Callers : \E i \in Inputs(op) :
         Put(s, [Idle EXCEPT !.pc = op, !.op = op, !.user = u, !.in = i,
                             !.pre = [conversations |-> conversations,
                                      messages |-> messages, files |-> files,
                                      imageReferences |-> imageReferences,
                                      storage |-> storage]])
    /\ UNCHANGED <<client, env, now, tables, storage>>

NextTwoOwners ==
    \/ Tick
    \/ \E s \in Slots : CallTwoOwners(s)
    \/ \E s \in Slots : Respond(s)
    \/ \E s \in Slots : createConversation_insert(s)
    \/ \E s \in Slots : createConversation_select(s)
    \/ \E s \in Slots : getConversations_proc(s)
    \/ \E s \in Slots : getConversation_proc(s)
    \/ \E s \in Slots : deleteConversation_check(s)
    \/ \E s \in Slots : deleteConversation_messages(s)
    \/ \E s \in Slots : deleteConversation_files(s)
    \/ \E s \in Slots : deleteConversation_imageReferences(s)
    \/ \E s \in Slots : deleteConversation_conversations(s)
    \/ \E s \in Slots : getMessages_guard(s)
    \/ \E s \in Slots : getMessages_select(s)
    \/ \E s \in Slots : deleteMessage_check(s)
    \/ \E s \in Slots : deleteMessage_delete(s)
    \/ \E s \in Slots : chat_guard(s)
    \/ \E s \in Slots : chat_saveUser_insert(s)
    \/ \E s \in Slots : chat_saveUser_select(s)
    \/ \E s \in Slots : chat_history(s)
    \/ \E s \in Slots : chat_invokeLLM(s)
    \/ \E s \in Slots : chat_saveAi_insert(s)
    \/ \E s \in Slots : chat_saveAi_select(s)
    \/ \E s \in Slots : uploadFile_guard(s)
    \/ \E s \in Slots : uploadFile_storagePut(s)
    \/ \E s \in Slots : uploadFile_insert(s)
    \/ \E s \in Slots : uploadFile_select(s)
    \/ \E s \in Slots : getFiles_guard(s)
    \/ \E s \in Slots : getFiles_select(s)
    \/ \E s \in Slots : deleteFile_check(s)
    \/ \E s \in Slots : deleteFile_delete(s)
    \/ \E s \in Slots : generateImage_guard(s)
    \/ \E s \in Slots : generateImage_resolve(s)
    \/ \E s \in Slots : generateImage_generate(s)
    \/ \E s \in Slots : generateImage_insert(s)
    \/ \E s \in Slots : generateImage_select(s)
    \/ \E s \in Slots : getImageReferences_guard(s)
    \/ \E s \in Slots : getImageReferences_select(s)
    \/ \E s \in Slots : transcribeAudioFile_guard(s)
    \/ \E s \in Slots : transcribeAudioFile_call(s)
    \/ \E s \in Slots : analyzeFileContent_guard(s)
    \/ \E s \in Slots : analyzeFileContent_call(s)
    \/ \E s \in Slots : generateReportFromFiles_guard(s)
    \/ \E s \in Slots : generateReportFromFiles_getFiles(s)
    \/ \E s \in Slots : generateReportFromFiles_call(s)
    \/ \E s \in Slots : extractDataFromFile_guard(s)
    \/ \E s \in Slots : extractDataFromFile_call(s)
    \/ \E s \in Slots : advanced_insert(s)
    \/ \E s \in Slots : advanced_select(s)

SpecTwoOwners == InitTwoOwners /\ [][NextTwoOwners]_vars

\* ------------------------------------------------- interleaved handlers
\* Handlers of different requests interleave at their awaits. The requests
\* are chat turns, deletions and reads on the conversations of a populated
\* database.
ConcurrentOps == {"chat", "deleteConversation", "getMessages"}

InitConcurrent ==
    /\ InitSeeded
    /\ now = 0
    /\ req = [s \in Slots |-> Idle]
    /\ calls = 0
    /\ ClientInit

\* a request arrives while others may be in flight
CallConcurrent(s) ==
    /\ req[s].pc = "idle"
    /\ calls < MaxCalls
    /\ calls' = calls + 1
    /\ \E op \in ConcurrentOps, u \in Callers : \E i \in Inputs(op) :
         Put(s, [Idle EXCEPT !.pc = op, !.op = op, !.user = u, !.in = i,
                             !.pre = [conversations |-> conversations,
                                      messages |-> messages, files |-> files,
                                      imageReferences |-> imageReferences,
                                      storage |-> storage]])
    /\ UNCHANGED <<client, env, now, tables, storage>>

NextConcurrent ==
    \/ Tick
    \/ \E s \in Slots : CallConcurrent(s)
    \/ \E s \in Slots : Respond(s)
    \/ \E s \in Slots : deleteConversation_check(s)
    \/ \E s \in Slots : deleteConversation_messages(s)
    \/ \E s \in Slots : deleteConversation_files(s)
    \/ \E s \in Slots : deleteConversation_imageReferences(s)
    \/ \E s \in Slots : deleteConversation_conversations(s)
    \/ \E s \in Slots : getMessages_guard(s)
    \/ \E s \in Slots : getMessages_select(s)
    \/ \E s \in Slots : chat_guard(s)
    \/ \E s \in Slots : chat_saveUser_insert(s)
    \/ \E s \in Slots : chat_saveUser_select(s)
    \/ \E s \in Slots : chat_history(s)
    \/ \E s \in Slots : chat_invokeLLM(s)
    \/ \E s \in Slots : chat_saveAi_insert(s)
    \/ \E s \in Slots : chat_saveAi_select(s)

SpecConcurrent == InitConcurrent /\ [][NextConcurrent]_vars

\* ------------------------------------------------- mock authentication
\* sdk_mock.ts: authenticateRequest, run for every request when its context
\* is created; requests overlap at the awaits.
OtherUser == [id |-> 1, openId |-> "oauth-user-1", name |-> "Earlier User",
              lastSignedIn |-> 0]

\* the users table at start: empty, holding a user of the earlier
\* authentication, or holding the mock user
InitAuth ==
    /\ env \in [db : BOOLEAN, apiKey : {TRUE}]
    /\ \/ users = {} /\ nextId = [user |-> 1, conv |-> 1, msg |-> 1, file |-> 1, img |-> 1]
       \/ users = {OtherUser}
          /\ nextId = [user |-> 2, conv |-> 1, msg |-> 1, file |-> 1, img |-> 1]
       \/ users = {SeedUser}
          /\ nextId = [user |-> 2, conv |-> 1, msg |-> 1, file |-> 1, img |-> 1]
    /\ conversations = {}
    /\ messages = {}
    /\ files = {}
    /\ imageReferences = {}
    /\ storage = {}
    /\ now = 0
    /\ req = [s \in Slots |-> Idle]
    /\ calls = 0
    /\ ClientInit

\* getUserByOpenId(openId): the row, or undefined (here {}) when there is
\* none or no database
getUserByOpenId(openId) ==
    IF ~getDb THEN {{}}
    ELSE LET result == {u \in users : u.openId = openId} IN
         IF result = {} THEN {{}} ELSE {{u} : u \in result}

\* an INSERT that takes no notice of the unique key on openId
upsertUser_alwaysInsert(user) ==
    users \cup {[id |-> nextId.user, openId |-> user.openId, name |-> user.name,
                 lastSignedIn |-> user.lastSignedIn]}

\* upsertUser(user): INSERT ... ON DUPLICATE KEY UPDATE over the unique
\* openId; a name that is not given ("") is left as it is
upsertUser(user) ==
    IF \E u \in users : u.openId = user.openId THEN
        {IF u.openId = user.openId
         THEN [u EXCEPT !.lastSignedIn = user.lastSignedIn,
                        !.name = IF user.name = "" THEN @ ELSE user.name]
         ELSE u : u \in users}
    ELSE users \cup {[id |-> nextId.user, openId |-> user.openId, name |-> user.name,
                      lastSignedIn |-> user.lastSignedIn]}

\* a request arrives and its context is being created
CallAuthenticate(s) ==
    /\ req[s].pc = "idle"
    /\ calls < MaxCalls
    /\ calls' = calls + 1
    /\ Put(s, [Idle EXCEPT !.pc = "authenticateRequest", !.op = "authenticateRequest"])
    /\ UNCHANGED <<client, env, now, tables, storage>>

\* "const signedInAt = new Date(); let user = await db.getUserByOpenId(...)"
authenticateRequest_lookup(s) ==
    LET q == [req[s] EXCEPT !.loc.signedInAt = now] IN
    /\ q.pc = "authenticateRequest"
    /\ \E ok \in BOOLEAN : \E user \in getUserByOpenId(MOCK_USER_OPEN_ID) :
         IF ~getDb THEN Put(s, Goto(q, "authenticateRequest_create"))
         ELSE IF ~ok THEN Put(s, Fail(DbFailed(Read(q)), DbError))
         ELSE IF user = {} THEN Put(s, Goto(Read(q), "authenticateRequest_create"))
         ELSE \E u \in user :
              Put(s, Goto([Read(q) EXCEPT !.loc.rows = <<u>>], "authenticateRequest_touch"))
    /\ UNCHANGED <<calls, client, env, now, tables, storage>>

\* "Create the mock user if they don't exist in the database"
authenticateRequest_create(s) ==
    LET q == req[s]
        created == upsertUser([openId |-> MOCK_USER_OPEN_ID, name |-> MOCK_USER_NAME,
                               lastSignedIn |-> q.loc.signedInAt]) IN
    /\ q.pc = "authenticateRequest_create"
    /\ \E ok \in BOOLEAN :
         IF ~getDb THEN
             Put(s, Goto(q, "authenticateRequest_relookup")) /\ UNCHANGED <<users, nextId>>
         ELSE IF ~ok THEN
             Put(s, Fail(DbFailed(Wrote(q)), DbError)) /\ UNCHANGED <<users, nextId>>
         ELSE /\ users' = created
              /\ nextId' = [nextId EXCEPT !.user = IF Cardinality(created) > Cardinality(users)
                                                    THEN @ + 1 ELSE @]
              /\ Put(s, Goto(Wrote(q), "authenticateRequest_relookup"))
    /\ UNCHANGED <<calls, client, env, now, conversations, messages, files, imageReferences, storage>>

\* "user = await db.getUserByOpenId(MOCK_USER_OPEN_ID)" and "if (!user) throw"
authenticateRequest_relookup(s) ==
    LET q == req[s] IN
    /\ q.pc = "authenticateRequest_relookup"
    /\ \E ok \in BOOLEAN : \E user \in getUserByOpenId(MOCK_USER_OPEN_ID) :
         IF getDb /\ ~ok THEN Put(s, Fail(DbFailed(Read(q)), DbError))
         ELSE IF user = {} THEN
             Put(s, Fail(IF getDb THEN Read(q) ELSE q, "Mock user creation failed"))
         ELSE \E u \in user :
              Put(s, Goto([Read(q) EXCEPT !.loc.rows = <<u>>], "authenticateRequest_touch"))
    /\ UNCHANGED <<calls, client, env, now, tables, storage>>

\* "Update last signed in time", then "return user"
authenticateRequest_touch(s) ==
    LET q == req[s]
        user == q.loc.rows[1]
        touched == upsertUser([openId |-> user.openId, name |-> "",
                               lastSignedIn |-> q.loc.signedInAt]) IN
    /\ q.pc = "authenticateRequest_touch"
    /\ \E ok \in BOOLEAN :
         IF ~getDb THEN
             Put(s, Return(q, [NoResult EXCEPT !.kind = "row", !.rows = <<user>>,
                                               !.id = user.id]))
             /\ UNCHANGED <<users, nextId>>
         ELSE IF ~ok THEN
             Put(s, Fail(DbFailed(Wrote(q)), DbError)) /\ UNCHANGED <<users, nextId>>
         ELSE /\ users' = touched
              /\ nextId' = [nextId EXCEPT !.user = IF Cardinality(touched) > Cardinality(users)
                                                    THEN @ + 1 ELSE @]
              /\ Put(s, Return(Wrote(q), [NoResult EXCEPT !.kind = "row", !.rows = <<user>>,
                                                          !.id = user.id]))
    /\ UNCHANGED <<calls, client, env, now, conversations, messages, files, imageReferences, storage>>

NextAuth ==
    \/ Tick
    \/ \E s \in Slots : CallAuthenticate(s)
    \/ \E s \in Slots : Respond(s)
    \/ \E s \in Slots : authenticateRequest_lookup(s)
    \/ \E s \in Slots : authenticateRequest_create(s)
    \/ \E s \in Slots : authenticateRequest_relookup(s)
    \/ \E s \in Slots : authenticateRequest_touch(s)

SpecAuth == InitAuth /\ [][NextAuth]_vars


\* ================================================= client: the Home page
MaxLocal == 3       \* entries of the local message list
MaxInFlight == 1    \* chat mutations in flight

\* the placeholder id of a message that has no server id yet
TempId == -1

\* what the getMessages query of the active conversation can deliver
QueryData ==
    {<<>>,
     <<[id |-> 1, role |-> "user", content |-> "Hello"]>>,
     <<[id |-> 1, role |-> "user", content |-> "Hello"],
       [id |-> 2, role |-> "assistant", content |-> "Reply"]>>}

\* what a successful chat mutation can deliver: { message, messageId }
ChatResponses == {[messageId |-> i, message |-> "Reply"] : i \in 1..MaxId}

RemoveAt(seq, i) == SubSeq(seq, 1, i - 1) \o SubSeq(seq, i + 1, Len(seq))

InitHome ==
    /\ InitSeeded
    /\ now = 0
    /\ req = [s \in Slots |-> Idle]
    /\ calls = 0
    /\ ClientInit

\* a conversation of the list is clicked
setActiveConversation(c) ==
    /\ home' = [home EXCEPT !.activeConversation = c]
    /\ UNCHANGED <<server, composer>>

\* useEffect on conversationMessages: the query (enabled with an active
\* conversation) has delivered data
conversationMessages_effect(data) ==
    /\ home.activeConversation # 0
    /\ home' = [home EXCEPT !.messages = data]
    /\ UNCHANGED <<server, composer>>

handleSendMessage(content) ==
    /\ home.activeConversation # 0
    /\ Len(home.messages) < MaxLocal
    /\ Len(home.chatMutation) < MaxInFlight
    /\ home' = [home EXCEPT
                  !.messages = Append(@, [id |-> TempId, role |-> "user", content |-> content]),
                  !.isLoading = TRUE,
                  !.chatMutation = Append(@, [conversationId |-> home.activeConversation,
                                              message |-> content])]
    /\ UNCHANGED <<server, composer>>

\* chatMutation onSuccess
chatMutation_onSuccess(i, response) ==
    /\ i \in DOMAIN home.chatMutation
    /\ LET tempUserMessage == {k \in DOMAIN home.messages : home.messages[k].id = TempId}
           updatedMessages == IF tempUserMessage # {}
                              THEN SelectSeq(home.messages, LAMBDA msg : msg.id # TempId)
                              ELSE home.messages IN
       home' = [home EXCEPT
                  !.messages = Append(updatedMessages,
                                      [id |-> response.messageId, role |-> "assistant",
                                       content |-> response.message]),
                  !.isLoading = FALSE,
                  !.chatMutation = RemoveAt(@, i)]
    /\ UNCHANGED <<server, composer>>

\* chatMutation onError
chatMutation_onError(i) ==
    /\ i \in DOMAIN home.chatMutation
    /\ home' = [home EXCEPT !.isLoading = FALSE, !.chatMutation = RemoveAt(@, i)]
    /\ UNCHANGED <<server, composer>>

\* deleteMessageMutation onSuccess
deleteMessageMutation_onSuccess(messageId) ==
    /\ \E k \in DOMAIN home.messages : home.messages[k].id = messageId
    /\ home' = [home EXCEPT
                  !.messages = SelectSeq(@, LAMBDA msg : msg.id # messageId)]
    /\ UNCHANGED <<server, composer>>

\* createConversationMutation onSuccess
createConversationMutation_onSuccess(conversation) ==
    /\ home' = [home EXCEPT !.activeConversation = conversation, !.messages = <<>>]
    /\ UNCHANGED <<server, composer>>

\* deleteConversationMutation onSuccess
deleteConversationMutation_onSuccess ==
    /\ home' = IF home.activeConversation # 0
               THEN [home EXCEPT !.activeConversation = 0, !.messages = <<>>]
               ELSE home
    /\ UNCHANGED <<server, composer>>

NextHome ==
    \/ \E c \in 1..MaxConv : setActiveConversation(c)
    \/ \E data \in QueryData : conversationMessages_effect(data)
    \/ \E content \in Texts : handleSendMessage(content)
    \/ \E i \in 1..MaxInFlight, response \in ChatResponses : chatMutation_onSuccess(i, response)
    \/ \E i \in 1..MaxInFlight : chatMutation_onError(i)
    \/ \E messageId \in 1..MaxId : deleteMessageMutation_onSuccess(messageId)
    \/ \E conversation \in 1..MaxConv : createConversationMutation_onSuccess(conversation)
    \/ deleteConversationMutation_onSuccess

SpecHome == InitHome /\ [][NextHome]_vars

\* ========================================= client: the ImageComposer
MaxLayers == 3      \* layers added in a run
MaxZ == 2           \* zIndex the up button is followed to
MaxLoading == 1     \* images being decoded at a time

LayerIds(layers) == {layers[k].id : k \in DOMAIN layers}

InitComposer ==
    /\ InitSeeded
    /\ now = 0
    /\ req = [s \in Slots |-> Idle]
    /\ calls = 0
    /\ ClientInit

\* handleAddLayer: a file is chosen; the callbacks close over the layers of
\* the render in which it was chosen
handleAddLayer ==
    /\ composer.nextLayer <= MaxLayers
    /\ Cardinality(composer.loading) < MaxLoading
    /\ composer' = [composer EXCEPT
                      !.loading = @ \cup {[id |-> composer.nextLayer,
                                           layers |-> composer.layers]},
                      !.nextLayer = @ + 1]
    /\ UNCHANGED <<server, home>>

\* img.onload of handleAddLayer: the new layer is appended to the captured
\* layers and selected
handleAddLayer_onload(id) ==
    /\ \E p \in composer.loading :
         /\ p.id = id
         /\ LET newLayer == [id |-> p.id, zIndex |-> Len(p.layers)] IN
            composer' = [composer EXCEPT
                           !.layers = Append(p.layers, newLayer),
                           !.selectedLayerId = newLayer.id,
                           !.loading = @ \ {p}]
    /\ UNCHANGED <<server, home>>

\* a layer of the list (or of the canvas) is clicked
setSelectedLayerId(id) ==
    /\ id \in LayerIds(composer.layers)
    /\ composer' = [composer EXCEPT !.selectedLayerId = id]
    /\ UNCHANGED <<server, home>>

handleDeleteLayer(id) ==
    /\ id \in LayerIds(composer.layers)
    /\ composer' = [composer EXCEPT
                      !.layers = SelectSeq(@, LAMBDA l : l.id # id),
                      !.selectedLayerId =
                          IF @ = id
                          THEN IF Len(composer.layers) > 1 THEN composer.layers[1].id ELSE 0
                          ELSE @]
    /\ UNCHANGED <<server, home>>

\* updateLayer(updates) for the zIndex field: the selected layer takes z
updateLayer(z) ==
    composer' = [composer EXCEPT
                   !.layers = [k \in DOMAIN @ |->
                                  IF @[k].id = composer.selectedLayerId
                                  THEN [@[k] EXCEPT !.zIndex = z]
                                  ELSE @[k]]]

\* the Z-Index down button, shown while a layer is selected
zIndexDown ==
    /\ \E k \in DOMAIN composer.layers :
         /\ composer.layers[k].id = composer.selectedLayerId
         /\ \A j \in 1..(k - 1) : composer.layers[j].id # composer.selectedLayerId
         /\ LET z == composer.layers[k].zIndex - 1 IN
            updateLayer(IF z > 0 THEN z ELSE 0)
    /\ UNCHANGED <<server, home>>

\* the Z-Index up button, shown while a layer is selected
zIndexUp ==
    /\ \E k \in DOMAIN composer.layers :
         /\ composer.layers[k].id = composer.selectedLayerId
         /\ \A j \in 1..(k - 1) : composer.layers[j].id # composer.selectedLayerId
         /\ composer.layers[k].zIndex < MaxZ
         /\ updateLayer(composer.layers[k].zIndex + 1)
    /\ UNCHANGED <<server, home>>

NextComposer ==
    \/ handleAddLayer
    \/ \E id \in 1..MaxLayers : handleAddLayer_onload(id)
    \/ \E id \in 1..MaxLayers : setSelectedLayerId(id)
    \/ \E id \in 1..MaxLayers : handleDeleteLayer(id)
    \/ zIndexDown
    \/ zIndexUp

SpecComposer == InitComposer /\ [][NextComposer]_vars

\* ======================================================== properties

GuardedOps == {"getMessages", "chat", "uploadFile", "getFiles", "generateImage",
               "getImageReferences"} \cup AdvancedOps

Owns(u, c) == \E conv \in conversations : conv.id = c /\ conv.userId = u
OwnedByOther(u, c) == \E conv \in conversations : conv.id = c /\ conv.userId # u

Untouched(q) ==
    /\ conversations = q.pre.conversations
    /\ messages = q.pre.messages
    /\ files = q.pre.files
    /\ imageReferences = q.pre.imageReferences
    /\ storage = q.pre.storage

\* C1: when a procedure that takes a conversationId runs its ownership check
\* and the conversation does not exist or belongs to another user, the
\* request ends in the error 'Conversation not found' having issued no
\* database write, no storage write and no gateway call, having returned
\* nothing, and with the tables and the storage unchanged.
C1_GuardRejects ==
    [][\A s \in Slots :
         (/\ req[s].op \in GuardedOps
          /\ req[s].pc = req[s].op
          /\ req[s].user \in Users
          /\ req'[s] # req[s]
          /\ ~Owns(req[s].user, req[s].in.cid))
         => /\ req'[s].pc = "failed"
            /\ req'[s].err = ConvNotFound
            /\ req'[s].dbw = 0 /\ req'[s].stw = 0 /\ req'[s].gw = 0
            /\ req'[s].out.kind = "none"
            /\ UNCHANGED <<tables, storage>>]_vars

\* a caller has been refused a conversation that exists and belongs to someone else
C1_Witness ==
    \E s \in Slots :
        /\ req[s].op \in GuardedOps
        /\ req[s].pc = "failed"
        /\ req[s].err = ConvNotFound
        /\ req[s].user \in Users
        /\ OwnedByOther(req[s].user, req[s].in.cid)

\* C2: for a conversation C of user U and any other user V, the accessor
\* getConversation(C.id, V) yields null and getConversations(V) does not
\* contain C; the procedure getConversation called by V ends in
\* 'Conversation not found', and the rows the two procedures return belong
\* to the caller.
C2_ConversationsPrivate ==
    /\ \A c \in conversations : \A v \in Users \ {c.userId} : \A ok \in BOOLEAN :
         /\ getConversation(c.id, v, ok) = {}
         /\ \A convs \in getConversations(v, ok) : c \notin Range(convs)
    /\ \A s \in Slots :
         /\ (/\ req[s].op = "getConversation"
             /\ req[s].pc \in {"done", "failed"}
             /\ req[s].user \in Users
             /\ OwnedByOther(req[s].user, req[s].in.cid))
            => (req[s].pc = "failed" /\ req[s].err = ConvNotFound)
         /\ (req[s].op \in {"getConversation", "getConversations"} /\ req[s].pc = "done")
            => \A row \in Range(req[s].out.rows) : row.userId = req[s].user

\* user V asked for a conversation of user U and got 'Conversation not found'
C2_Witness ==
    \E s \in Slots :
        /\ req[s].op = "getConversation"
        /\ req[s].pc = "failed"
        /\ req[s].err = ConvNotFound
        /\ req[s].user \in Users
        /\ OwnedByOther(req[s].user, req[s].in.cid)

\* C3: once deleteConversation(C, owner) has returned success, with handlers
\* running one at a time, no message, file or image reference has
\* conversationId C and the conversation row C is gone.
C3_CascadeComplete ==
    \A s \in Slots :
        (req[s].op = "deleteConversation" /\ req[s].pc = "done")
        => /\ ~\E c \in conversations : c.id = req[s].in.cid
           /\ ~\E m \in messages : m.conversationId = req[s].in.cid
           /\ ~\E f \in files : f.conversationId = req[s].in.cid
           /\ ~\E i \in imageReferences : i.conversationId = req[s].in.cid

\* a conversation that held a message, a file and an image has been deleted
C3_Witness ==
    \E s \in Slots :
        /\ req[s].op = "deleteConversation"
        /\ req[s].pc = "done"
        /\ \E m \in req[s].pre.messages : m.conversationId = req[s].in.cid
        /\ \E f \in req[s].pre.files : f.conversationId = req[s].in.cid
        /\ \E i \in req[s].pre.imageReferences : i.conversationId = req[s].in.cid

\* C4: a successful chat turn, with handlers running one at a time, leaves
\* the messages that were there before plus exactly two new ones in the
\* conversation: a user message with the text sent, then (higher id) an
\* assistant message with the reply text that is returned; on a conversation
\* without messages these two are all its messages.
C4_ChatAddsTwo ==
    \A s \in Slots :
        (req[s].op = "chat" /\ req[s].pc = "done")
        => \E u \in messages \ req[s].pre.messages :
           \E a \in messages \ req[s].pre.messages :
              /\ messages = req[s].pre.messages \cup {u, a}
              /\ u.id < a.id
              /\ u.conversationId = req[s].in.cid /\ a.conversationId = req[s].in.cid
              /\ u.role = "user" /\ u.content = req[s].in.text
              /\ a.role = "assistant" /\ a.content = req[s].out.text
              /\ req[s].ins = {<<"messages", u.id>>, <<"messages", a.id>>}

\* a chat turn has succeeded on a conversation that had no message
C4_Witness ==
    \E s \in Slots :
        /\ req[s].op = "chat"
        /\ req[s].pc = "done"
        /\ req[s].in.text = "Hello"
        /\ ~\E m \in req[s].pre.messages : m.conversationId = req[s].in.cid
        /\ Cardinality({m \in messages : m.conversationId = req[s].in.cid}) = 2

\* C5: an uploadFile whose decoded payload is longer than MAX_FILE_SIZE ends
\* in an error without a storage write or a database write; the files table
\* and the storage are as they were.
C5_OversizedRejected ==
    \A s \in Slots :
        (/\ req[s].op = "uploadFile"
         /\ req[s].pc # "uploadFile"
         /\ DecodedLength(req[s].in.data) > 100 * 1024 * 1024)
        => /\ req[s].pc = "failed"
           /\ req[s].stw = 0 /\ req[s].dbw = 0
           /\ files = req[s].pre.files
           /\ storage = req[s].pre.storage

\* the owner's upload of MAX_FILE_SIZE + 1 bytes has been refused for its size
C5_Witness ==
    \E s \in Slots :
        /\ req[s].op = "uploadFile"
        /\ req[s].pc = "failed"
        /\ req[s].err = "File is too large. Maximum size is 100MB"
        /\ DecodedLength(req[s].in.data) = MAX_FILE_SIZE + 1

\* C6: when generateImage is called with imageReferenceIds naming an image
\* reference of the conversation (and without originalImages), the request
\* posted to the image service carries that image's stored URL and MIME type.
C6_ReferencedImageForwarded ==
    \A s \in Slots :
        (/\ req[s].op = "generateImage"
         /\ req[s].sent.kind = "image"
         /\ req[s].in.imgs = <<>>
         /\ ~req[s].dbf)
        => \A img \in req[s].pre.imageReferences :
              (img.id \in req[s].in.ids /\ img.conversationId = req[s].in.cid)
              => [url |-> img.imageUrl, mimeType |-> img.mimeType]
                    \in Range(req[s].sent.images)

\* C7: deleteMessage on a message of another user and deleteFile on a file of
\* another user end in an error (the ownership error unless the lookup itself
\* failed), issue no write and leave every row of every table in place.
C7_ForeignDeleteRefused ==
    \A s \in Slots :
        /\ (/\ req[s].op = "deleteMessage"
            /\ req[s].pc # "deleteMessage"
            /\ req[s].user \in Users
            /\ \E m \in req[s].pre.messages : m.id = req[s].in.id /\ m.userId # req[s].user)
           => /\ req[s].pc = "failed"
              /\ req[s].err = (IF req[s].dbf THEN DbError ELSE "Message not owned by user")
              /\ req[s].dbw = 0
              /\ Untouched(req[s])
        /\ (/\ req[s].op = "deleteFile"
            /\ req[s].pc # "deleteFile"
            /\ req[s].user \in Users
            /\ \E f \in req[s].pre.files : f.id = req[s].in.id /\ f.userId # req[s].user)
           => /\ req[s].pc = "failed"
              /\ req[s].err = (IF req[s].dbf THEN DbError ELSE "File not found or unauthorized")
              /\ req[s].dbw = 0
              /\ Untouched(req[s])

\* a user has been refused the deletion of another user's message, which is still there
C7_Witness ==
    \E s \in Slots :
        /\ req[s].op = "deleteMessage"
        /\ req[s].pc = "failed"
        /\ req[s].err = "Message not owned by user"
        /\ \E m \in messages : m.id = req[s].in.id /\ m.userId # req[s].user

\* C8 as stated: whichever user an accessor is invoked for, getMessages,
\* getFiles and getImageReferences return only rows of that user.
C8_AccessorsFilterByOwner ==
    \A u \in Users : \A c \in 1..MaxConv : \A ok \in BOOLEAN :
        /\ \A msgs \in getMessages(c, ok) : \A row \in Range(msgs) : row.userId = u
        /\ \A fileList \in getFiles(c, 0, ok) : \A row \in Range(fileList) : row.userId = u
        /\ \A refs \in getImageReferences(c, ok) : \A row \in Range(refs) : row.userId = u

\* C8 as amended: getMessages, getFiles and getImageReferences filter by the
\* conversation id alone; what they return for an existing conversation are
\* rows of that conversation, owned by its owner; and the procedures of the
\* same names, which check the caller's ownership first, return only rows of
\* the caller.
C8_RowsOfOwnedConversation ==
    /\ \A c \in conversations : \A ok \in BOOLEAN :
         /\ \A msgs \in getMessages(c.id, ok) : \A row \in Range(msgs) :
               row.conversationId = c.id /\ row.userId = c.userId
         /\ \A fileList \in getFiles(c.id, 0, ok) : \A row \in Range(fileList) :
               row.conversationId = c.id /\ row.userId = c.userId
         /\ \A refs \in getImageReferences(c.id, ok) : \A row \in Range(refs) :
               row.conversationId = c.id /\ row.userId = c.userId
    /\ \A s \in Slots :
         (req[s].op \in {"getMessages", "getFiles", "getImageReferences"} /\ req[s].pc = "done")
         => \A row \in Range(req[s].out.rows) :
               row.userId = req[s].user /\ row.conversationId = req[s].in.cid

\* the owner has been given the messages of a conversation
C8_Witness ==
    \E s \in Slots :
        /\ req[s].op = "getMessages"
        /\ req[s].pc = "done"
        /\ Len(req[s].out.rows) > 0

\* C9: a chat turn in which a step failed has been aborted (a failed database
\* call leaves the turn in the failed state) and has left no partial save
\* (the messages are those from before the turn).
C9_ChatAbortsCleanly ==
    \A s \in Slots :
        req[s].op = "chat"
        => /\ req[s].dbf => req[s].pc = "failed"
           /\ req[s].pc = "failed" => messages = req[s].pre.messages

\* C10: a request during which the database was unavailable or a statement
\* failed ends in a thrown error that carries the message of that failure.
C10_DbFailureSurfaces ==
    \A s \in Slots :
        req[s].dbf => (req[s].pc = "failed" /\ req[s].err \in {DbNotAvailable, DbError})

GatewayErrors == {"Image generation request failed", "OPENAI_API_KEY is not configured"}

\* C11: a generateImage request calls the image service at most once; every
\* image-reference row it inserts is inserted after that call returned a
\* non-empty URL and holds that URL; when the call fails the request ends in
\* the service's error, has inserted nothing and the imageReferences table is
\* as it was.
C11_ImageRowAfterGateway ==
    \A s \in Slots :
        req[s].op = "generateImage"
        => /\ req[s].gw <= 1
           /\ \A e \in req[s].ins :
                 /\ e[1] = "imageReferences"
                 /\ req[s].gw = 1
                 /\ req[s].loc.url # ""
                 /\ \E i \in imageReferences : i.id = e[2] /\ i.imageUrl = req[s].loc.url
           /\ imageReferences # req[s].pre.imageReferences => req[s].ins # {}
           /\ (req[s].pc = "failed" /\ req[s].err \in GatewayErrors)
              => /\ req[s].ins = {}
                 /\ req[s].dbw = 0
                 /\ imageReferences = req[s].pre.imageReferences

\* the image service has failed the owner's request, after one call
C11_Witness ==
    \E s \in Slots :
        /\ req[s].op = "generateImage"
        /\ req[s].pc = "failed"
        /\ req[s].err = "Image generation request failed"
        /\ req[s].gw = 1
        /\ Owns(req[s].user, req[s].in.cid)

\* C12: a request without a user context has, once its handler has taken a
\* step, ended in 'User not authenticated' having issued no database read or
\* write, no storage write and no gateway call, with tables and storage
\* unchanged.
C12_UnauthenticatedRejected ==
    \A s \in Slots :
        (req[s].op \in Ops /\ req[s].user = 0 /\ req[s].pc # req[s].op)
        => /\ req[s].pc = "failed"
           /\ req[s].err = NotAuthenticated
           /\ req[s].dbr = 0 /\ req[s].dbw = 0 /\ req[s].stw = 0 /\ req[s].gw = 0
           /\ ~req[s].dbf
           /\ req[s].out.kind = "none"
           /\ Untouched(req[s])

\* a chat request without a user context on an existing conversation has been rejected
C12_Witness ==
    \E s \in Slots :
        /\ req[s].op = "chat"
        /\ req[s].user = 0
        /\ req[s].pc = "failed"
        /\ req[s].err = NotAuthenticated
        /\ \E c \in conversations : c.id = req[s].in.cid

Dependents(c) == {m \in messages : m.conversationId = c}
                 \cup {f \in files : f.conversationId = c}
                 \cup {i \in imageReferences : i.conversationId = c}

\* C13: deleteConversation by the owner issues its DELETE statements in the
\* order messages, files, imageReferences, conversations: after k statements
\* the first k of these tables hold no row of the conversation; until the
\* request has succeeded, also when a statement has failed, the conversation
\* row exists; and, with handlers running one at a time, every message, file
\* and image reference references a conversation that exists.
C13_RowDeletedLast ==
    /\ \A s \in Slots :
         (/\ req[s].op = "deleteConversation"
          /\ \E c \in req[s].pre.conversations :
                c.id = req[s].in.cid /\ c.userId = req[s].user)
         => /\ req[s].pc # "done" => \E c \in conversations : c.id = req[s].in.cid
            /\ req[s].pc = "deleteConversation_files"
               => ~\E m \in messages : m.conversationId = req[s].in.cid
            /\ req[s].pc = "deleteConversation_imageReferences"
               => ~\E m \in messages \cup files : m.conversationId = req[s].in.cid
            /\ req[s].pc = "deleteConversation_conversations"
               => Dependents(req[s].in.cid) = {}
            /\ req[s].pc = "done" => Dependents(req[s].in.cid) = {}
    /\ \A r \in messages \cup files \cup imageReferences :
         \E c \in conversations : c.id = r.conversationId

\* a deleteConversation has failed after deleting the messages: the files,
\* the image references and the conversation row are still there
C13_Witness ==
    \E s \in Slots :
        /\ req[s].op = "deleteConversation"
        /\ req[s].pc = "failed"
        /\ req[s].dbw = 2
        /\ \E m \in req[s].pre.messages : m.conversationId = req[s].in.cid
        /\ ~\E m \in messages : m.conversationId = req[s].in.cid
        /\ \E f \in files : f.conversationId = req[s].in.cid
        /\ \E c \in conversations : c.id = req[s].in.cid

\* C14: no handler returns to its caller, or forwards to the language-model
\* gateway, a row that references a conversation which has been deleted:
\* when a chat turn sends its history, no message of the table whose
\* role/content pair is in that history lacks its conversation row, and when
\* getMessages returns rows, each row's conversation exists.
C14_OrphansInaccessible ==
    [][\A s \in Slots :
         /\ (req[s].pc = "chat_invokeLLM" /\ req'[s].sent.kind = "chat")
            => \A m \in messages :
                  (/\ m.conversationId = req[s].in.cid
                   /\ [role |-> m.role, content |-> m.content]
                         \in Range(req'[s].sent.messages))
                  => \E c \in conversations : c.id = m.conversationId
         /\ (req[s].pc = "getMessages_select" /\ req'[s].pc = "done")
            => \A row \in Range(req'[s].out.rows) :
                  \E c \in conversations : c.id = row.conversationId]_vars

ForwardErrors == {"LLM invoke failed", "Transcription failed",
                  "Manus API credentials not configured"}

\* C15: an advanced-capability request on an owned conversation makes at most
\* one forward call; when it has returned, it made exactly one, the messages
\* are those from before plus exactly one assistant message of that
\* conversation holding the result, and the id returned is that message's
\* id; when the forward call failed, the messages are those from before.
C15_AdvancedForwardThenPersist ==
    \A s \in Slots :
        req[s].op \in AdvancedOps
        => /\ req[s].gw <= 1
           /\ req[s].pc = "done"
              => /\ req[s].gw = 1
                 /\ \E a \in messages \ req[s].pre.messages :
                       /\ messages = req[s].pre.messages \cup {a}
                       /\ a.role = "assistant"
                       /\ a.conversationId = req[s].in.cid
                       /\ a.content = req[s].loc.content
                       /\ req[s].out.id = a.id
           /\ (req[s].pc = "failed" /\ req[s].err \in ForwardErrors)
              => messages = req[s].pre.messages

\* C16: with the database URL and the API key set, a transcribeAudioFile
\* request of the owner whose database calls succeed reaches the
\* transcription service once its ownership check has passed, and when it has
\* returned text T an assistant message 'Audio Transcription:\n\n' + T is in
\* the conversation.
C16_TranscriptionReachesService ==
    \A s \in Slots :
        (/\ req[s].op = "transcribeAudioFile"
         /\ env.db /\ env.apiKey
         /\ ~req[s].dbf
         /\ \E c \in req[s].pre.conversations :
               c.id = req[s].in.cid /\ c.userId = req[s].user
         /\ req[s].pc \notin {"transcribeAudioFile", "transcribeAudioFile_call"})
        => /\ req[s].gw = 1
           /\ req[s].sent.kind = "transcribe"
           /\ req[s].pc = "done"
              => \E a \in messages \ req[s].pre.messages :
                    /\ a.role = "assistant"
                    /\ a.conversationId = req[s].in.cid
                    /\ a.content = "Audio Transcription:\n\n" \o req[s].out.text

\* the rows of S in the order they were created (ids are auto-incremented)
RECURSIVE InCreationOrder(_)
InCreationOrder(S) ==
    IF S = {} THEN <<>>
    ELSE LET first == CHOOSE x \in S : \A y \in S : x.id <= y.id IN
         <<first>> \o InCreationOrder(S \ {first})

\* C17: when a chat turn whose database calls all succeeded has called the
\* language-model gateway, the role/content sequence it sent is that of all
\* the messages of the conversation in the order they were created, and its
\* last element is the user message of this turn.
C17_HistoryInCreationOrder ==
    \A s \in Slots :
        (req[s].op = "chat" /\ req[s].pc = "chat_saveAi_insert" /\ ~req[s].dbf)
        => LET history == InCreationOrder({m \in messages :
                                             m.conversationId = req[s].in.cid}) IN
           /\ req[s].sent.messages =
                 [i \in DOMAIN history |->
                    [role |-> history[i].role, content |-> history[i].content]]
           /\ Len(req[s].sent.messages) > 0
           /\ req[s].sent.messages[Len(req[s].sent.messages)]
                 = [role |-> "user", content |-> req[s].in.text]
           /\ <<"messages", history[Len(history)].id>> \in req[s].ins

\* C18: the messageId a successful chat turn returns is the id of a row this
\* turn inserted, with role assistant, the turn's conversationId and the
\* returned text as content.
C18_MessageIdOfAssistantRow ==
    \A s \in Slots :
        (req[s].op = "chat" /\ req[s].pc = "done")
        => \E m \in messages :
              /\ m.id = req[s].out.id
              /\ <<"messages", m.id>> \in req[s].ins
              /\ m.role = "assistant"
              /\ m.conversationId = req[s].in.cid
              /\ m.content = req[s].out.text

\* C19: a deleteConversation by a user who does not own the conversation
\* (it does not exist, or belongs to someone else) ends in an error without
\* a write statement; conversations, messages, files, image references and
\* storage are as they were.
C19_ForeignCascadeRefused ==
    \A s \in Slots :
        (/\ req[s].op = "deleteConversation"
         /\ req[s].user \in Users
         /\ req[s].pc # "deleteConversation"
         /\ ~\E c \in req[s].pre.conversations :
                c.id = req[s].in.cid /\ c.userId = req[s].user)
        => /\ req[s].pc = "failed"
           /\ req[s].err = (IF getDb THEN "Conversation not found or not owned by user"
                            ELSE DbNotAvailable)
           /\ req[s].dbw = 0
           /\ Untouched(req[s])

\* user V has been refused the deletion of user U's conversation, whose
\* messages, files and image references are still there
C19_Witness ==
    \E s \in Slots :
        /\ req[s].op = "deleteConversation"
        /\ req[s].pc = "failed"
        /\ req[s].err = "Conversation not found or not owned by user"
        /\ OwnedByOther(req[s].user, req[s].in.cid)
        /\ \E m \in messages : m.conversationId = req[s].in.cid
        /\ \E f \in files : f.conversationId = req[s].in.cid
        /\ \E i \in imageReferences : i.conversationId = req[s].in.cid

\* C20: every authenticateRequest call that has completed returned a user
\* whose openId is 'mock-user-123', and the users table never holds more
\* than one row with that openId, however the requests overlap.
C20_OneMockUser ==
    /\ \A s \in Slots :
         (req[s].op = "authenticateRequest" /\ req[s].pc = "done")
         => /\ Len(req[s].out.rows) = 1
            /\ req[s].out.rows[1].openId = "mock-user-123"
    /\ Cardinality({u \in users : u.openId = "mock-user-123"}) <= 1

\* two overlapping requests have both found no mock user, both issued the
\* creating upsert and both completed; one mock user exists beside the
\* earlier user
C20_Witness ==
    /\ \A s \in Slots :
         /\ req[s].op = "authenticateRequest"
         /\ req[s].pc = "done"
         /\ req[s].dbw = 2
    /\ OtherUser \in users
    /\ Cardinality({u \in users : u.openId = "mock-user-123"}) = 1

\* C21: once a chat turn has received the gateway's response, the reply text
\* it holds is: the content itself when the content is a string; the text of
\* the first part of type text when the content is a non-empty list with
\* such a part; 'I could not generate a response.' in every other case (no
\* choice, an empty list, a list without a text part); and the assistant
\* message the turn then inserts has that text as its content.
C21_ReplyExtractionTotal ==
    \A s \in Slots :
        (req[s].op = "chat"
         /\ req[s].pc \in {"chat_saveAi_insert", "chat_saveAi_select", "done"})
        => LET choices == req[s].loc.llmResponse.choices
               isString == Len(choices) > 0 /\ choices[1].tag = "string"
               parts == IF Len(choices) > 0 /\ choices[1].tag = "parts"
                        THEN choices[1].parts ELSE <<>>
               textAt == {i \in DOMAIN parts : parts[i].type = "text"}
               reply == req[s].loc.content IN
           /\ isString => reply = choices[1].text
           /\ textAt # {}
              => \E i \in textAt : /\ \A j \in textAt : i <= j
                                   /\ reply = parts[i].text
           /\ (~isString /\ textAt = {}) => reply = "I could not generate a response."
           /\ req[s].pc \in {"chat_saveAi_select", "done"}
              => \E m \in messages :
                    /\ <<"messages", m.id>> \in req[s].ins
                    /\ m.role = "assistant"
                    /\ m.content = reply

\* a turn whose response was a list with an image part before two text parts
\* has persisted the text of the first text part
C21_Witness ==
    \E s \in Slots :
        /\ req[s].op = "chat"
        /\ req[s].pc = "done"
        /\ Len(req[s].loc.llmResponse.choices) > 0
        /\ Len(req[s].loc.llmResponse.choices[1].parts) = 3
        /\ req[s].out.text = "Part text"
        /\ \E m \in messages : m.role = "assistant" /\ m.content = "Part text"

\* a turn whose response held no text part has persisted the fallback
C21_FallbackPersisted ==
    \E s \in Slots :
        /\ req[s].op = "chat"
        /\ req[s].pc = "done"
        /\ req[s].out.text = Fallback
        /\ \E m \in messages : m.role = "assistant" /\ m.content = Fallback

NoFilesFound == "No files found for report generation"

\* C22: the images generateImage resolves from imageReferenceIds are image
\* references of the given conversation whose id was named, and the files
\* generateReportFromFiles sends are files of the given conversation whose
\* id was named; when no file of the conversation matches, the owner's
\* generateReportFromFiles, its ownership check passed, ends in 'No files
\* found for report generation' without a gateway call or a write.
C22_IdsResolvedInConversation ==
    \A s \in Slots :
        LET q == req[s]
            refs == {r \in q.pre.imageReferences :
                        r.conversationId = q.in.cid /\ r.id \in q.in.ids}
            named == {f \in q.pre.files :
                        f.conversationId = q.in.cid /\ f.id \in q.in.ids} IN
        /\ (/\ q.op = "generateImage"
            /\ q.in.imgs = <<>>
            /\ q.pc \notin {"generateImage", "generateImage_resolve"})
           => Range(q.loc.imgs) \subseteq
                 {[url |-> r.imageUrl,
                   mimeType |-> IF r.mimeType = "" THEN "image/png" ELSE r.mimeType] :
                  r \in refs}
        /\ (q.op = "generateReportFromFiles" /\ q.sent.kind = "llm")
           => /\ Len(q.sent.images) > 0
              /\ Range(q.sent.images) \subseteq
                    {[url |-> f.url,
                      mimeType |-> IF f.mimeType = "" THEN "application/octet-stream"
                                   ELSE f.mimeType] : f \in named}
        /\ (/\ q.op = "generateReportFromFiles"
            /\ q.pc \notin {"generateReportFromFiles", "generateReportFromFiles_getFiles"}
            /\ \E c \in q.pre.conversations : c.id = q.in.cid /\ c.userId = q.user
            /\ q.err # ConvNotFound
            /\ named = {})
           => /\ q.pc = "failed"
              /\ q.err = NoFilesFound
              /\ q.gw = 0 /\ q.dbw = 0
              /\ messages = q.pre.messages

\* the owner of conversation 1 asked for a report on files 1 and 2, file 2
\* being in another user's conversation: one file was sent
C22_Witness ==
    \E s \in Slots :
        /\ req[s].op = "generateReportFromFiles"
        /\ req[s].sent.kind = "llm"
        /\ req[s].in.ids = {1, 2}
        /\ Len(req[s].sent.images) = 1
        /\ \E f \in files : f.id \in req[s].in.ids /\ f.conversationId # req[s].in.cid

\* the owner of conversation 1 named only a file of another conversation and
\* got 'No files found for report generation'
C22_NoMatchRefused ==
    \E s \in Slots :
        /\ req[s].op = "generateReportFromFiles"
        /\ req[s].pc = "failed"
        /\ req[s].err = NoFilesFound
        /\ ~req[s].dbf
        /\ \E f \in files : f.id \in req[s].in.ids /\ f.conversationId # req[s].in.cid

\* C23: an extractDataFromFile request whose gateway call has been answered
\* has not failed for the reply's sake: it goes on to persist, with the reply
\* itself as result when the reply is JSON and the object {raw_response:
\* reply} otherwise; once the insert is done, exactly one message has been
\* added, an assistant message of the conversation holding that result.
C23_ExtractionNeverFailsOnJson ==
    \A s \in Slots :
        (req[s].op = "extractDataFromFile" /\ req[s].gw = 1
         /\ req[s].err # "LLM invoke failed")
        => LET reply == responseText(req[s].loc.llmResponse)
               result == IF reply \in {"{}"} THEN reply
                         ELSE "{\n  \"raw_response\": \"" \o reply \o "\"\n}" IN
           /\ req[s].pc = "failed" => req[s].dbf
           /\ req[s].loc.text = result
           /\ req[s].pc \in {"advanced_select", "done"}
              => \E a \in messages \ req[s].pre.messages :
                    /\ messages = req[s].pre.messages \cup {a}
                    /\ a.role = "assistant"
                    /\ a.conversationId = req[s].in.cid
                    /\ a.content = "Data Extraction from a.png\n\n" \o Fence \o "json\n"
                                      \o result \o "\n" \o Fence
           /\ req[s].pc = "done" => req[s].out.text = result

\* a reply that is not JSON has been returned and persisted as raw_response
C23_Witness ==
    \E s \in Slots :
        /\ req[s].op = "extractDataFromFile"
        /\ req[s].pc = "done"
        /\ responseText(req[s].loc.llmResponse) = "Part text"
        /\ req[s].out.text = "{\n  \"raw_response\": \"Part text\"\n}"
        /\ \E a \in messages \ req[s].pre.messages : a.role = "assistant"

\* C24: every message, file and image reference whose conversation row
\* exists has the userId of that conversation.
C24_RowsBelongToOwner ==
    \A r \in messages \cup files \cup imageReferences :
        \A c \in conversations :
            c.id = r.conversationId => r.userId = c.userId

\* with conversations of two owners present, a user has added a row (a
\* message, a file or an image reference) to their own conversation
C24_Witness ==
    \E s \in Slots :
        /\ req[s].op \in {"chat", "uploadFile", "generateImage"} \cup AdvancedOps
        /\ req[s].pc = "done"
        /\ req[s].ins # {}
        /\ \E c \in conversations : c.id = req[s].in.cid /\ c.userId = req[s].user
        /\ \E c \in conversations : c.userId # req[s].user
        /\ \E r \in (messages \ req[s].pre.messages) \cup (files \ req[s].pre.files)
                     \cup (imageReferences \ req[s].pre.imageReferences) :
              r.conversationId = req[s].in.cid /\ r.userId = req[s].user

\* C25: with requests interleaved, no message, file or image reference is
\* left whose conversation row does not exist.
C25_NoRowWithoutConversation ==
    \A r \in messages \cup files \cup imageReferences :
        \E c \in conversations : c.id = r.conversationId

C26_GatewayFailed ==
    \E s \in Slots :
        /\ req[s].op = "chat"
        /\ req[s].pc = "failed"
        /\ req[s].err = "LLM invoke failed"
        /\ \E u \in messages \ req[s].pre.messages : u.role = "user"

C27_CreateReturnsInsertedRow ==
    \A s \in Slots :
        (/\ req[s].op \in {"createConversation", "uploadFile", "generateImage"}
         /\ req[s].pc = "done"
         /\ req[s].out.kind = "row")
        => \E t \in {"conversations", "files", "imageReferences"} :
               <<t, req[s].out.id>> \in req[s].ins

\* the procedures that name the conversation they act on
ConversationOps == {"chat", "uploadFile", "generateImage", "deleteConversation"}
                   \cup AdvancedOps

\* the rows of S that do not belong to conversation c
Outside(S, c) == {r \in S : r.conversationId # c}

\* C28: while and after a procedure runs on conversation A, the conversation
\* row, the messages, the files and the image references of every other
\* conversation are those from before the call; and when deleteMessage or
\* deleteFile has succeeded, the targeted row is gone and every other row of
\* every table is as before.
C28_OtherConversationsUnchanged ==
    \A s \in Slots :
        LET q == req[s] IN
        /\ q.op \in ConversationOps
           => /\ {c \in conversations : c.id # q.in.cid}
                    = {c \in q.pre.conversations : c.id # q.in.cid}
              /\ Outside(messages, q.in.cid) = Outside(q.pre.messages, q.in.cid)
              /\ Outside(files, q.in.cid) = Outside(q.pre.files, q.in.cid)
              /\ Outside(imageReferences, q.in.cid)
                    = Outside(q.pre.imageReferences, q.in.cid)
        /\ (q.op = "deleteMessage" /\ q.pc = "done")
           => /\ \E m \in q.pre.messages : m.id = q.in.id
              /\ messages = {m \in q.pre.messages : m.id # q.in.id}
              /\ conversations = q.pre.conversations
              /\ files = q.pre.files
              /\ imageReferences = q.pre.imageReferences
        /\ (q.op = "deleteFile" /\ q.pc = "done")
           => /\ \E f \in q.pre.files : f.id = q.in.id
              /\ files = {f \in q.pre.files : f.id # q.in.id}
              /\ conversations = q.pre.conversations
              /\ messages = q.pre.messages
              /\ imageReferences = q.pre.imageReferences

\* a procedure has changed the rows of its conversation while another
\* conversation holds a message, a file and an image reference
C28_Witness ==
    \E s \in Slots :
        /\ req[s].op \in ConversationOps
        /\ req[s].pc = "done"
        /\ Dependents(req[s].in.cid) # {r \in req[s].pre.messages \cup req[s].pre.files
                                              \cup req[s].pre.imageReferences :
                                          r.conversationId = req[s].in.cid}
        /\ Outside(messages, req[s].in.cid) # {}
        /\ Outside(files, req[s].in.cid) # {}
        /\ Outside(imageReferences, req[s].in.cid) # {}

\* deleteMessage has removed its target and a message of another conversation remains
C28_TargetRemoved ==
    \E s \in Slots :
        /\ req[s].op = "deleteMessage"
        /\ req[s].pc = "done"
        /\ messages # {}

\* C29: a step in which a chat mutation succeeds leaves a local message list
\* with no entry of id -1 whose last entry is the assistant reply and whose
\* entry before it is a user message carrying the text that was sent, and
\* leaves isLoading false; a step in which it fails leaves isLoading false.
C29_SuccessKeepsUserText ==
    [][/\ \A i \in 1..MaxInFlight, response \in ChatResponses :
            chatMutation_onSuccess(i, response)
            => LET n == Len(home'.messages) IN
               /\ \A k \in 1..n : home'.messages[k].id # TempId
               /\ n >= 2
               /\ home'.messages[n] = [id |-> response.messageId, role |-> "assistant",
                                       content |-> response.message]
               /\ home'.messages[n - 1].role = "user"
               /\ home'.messages[n - 1].content = home.chatMutation[i].message
               /\ ~home'.isLoading
       /\ \A i \in 1..MaxInFlight : chatMutation_onError(i) => ~home'.isLoading]_vars

\* the part of C29 about the placeholder and isLoading alone: after success
\* no entry has id -1, the reply is last and isLoading is false; after an
\* error isLoading is false
C29_PlaceholderGoneNotLoading ==
    [][/\ \A i \in 1..MaxInFlight, response \in ChatResponses :
            chatMutation_onSuccess(i, response)
            => LET n == Len(home'.messages) IN
               /\ \A k \in 1..n : home'.messages[k].id # TempId
               /\ n >= 1
               /\ home'.messages[n].role = "assistant"
               /\ ~home'.isLoading
       /\ \A i \in 1..MaxInFlight : chatMutation_onError(i) => ~home'.isLoading]_vars

\* C30: after any sequence of add-layer, select-layer and delete-layer
\* actions selectedLayerId is null or the id of a layer of the list, and no
\* layer has a negative zIndex.
C30_SelectionValid ==
    /\ composer.selectedLayerId = 0 \/ composer.selectedLayerId \in LayerIds(composer.layers)
    /\ \A k \in DOMAIN composer.layers : composer.layers[k].zIndex >= 0

\* the part of C30 about zIndex alone
C30_ZIndexNotNegative ==
    \A k \in DOMAIN composer.layers : composer.layers[k].zIndex >= 0

====
